---- MODULE Spec2Model ----
(***************************************************************************)
(* Model of the research assistant's memory subsystem                      *)
(* (src/src/memory_system.py) and of the pipeline tool                     *)
(* research_complete_pipeline_with_memory (src/src/memory_integration.py), *)
(* and of the search manager (src/src/services/search_api.py) as the       *)
(* researcher agent calls it (src/src/agents/researcher_agent.py).         *)
(*                                                                         *)
(* Time is the wall clock in hours.  Contents are small integers; the MD5  *)
(* digest of a content is the pair <<"md5", content>>.                     *)
(***************************************************************************)
EXTENDS Integers, Sequences, FiniteSets, Bags, TLC

\* ------------------------------------------------------------------ bounds
NumContents == 2        \* distinct document contents the fetcher can return
NumTopics == 2          \* distinct topics
MaxTicks == 2           \* the clock advances at most this many times
MaxBatch == 2           \* longest batch handed to add_documents directly
MaxStore == 3           \* direct add_documents calls fill the store up to this size
MaxUrls == 2            \* most search results one run gets
MaxOverflow == 2        \* conversations added beyond a threshold of the log
MaxNLast == 3           \* largest n_last asked of get_research_history
MaxResults == 3         \* most results one search provider returns
NumTasks == 6           \* extraction tasks created on one extraction manager
MaxExtractCalls == 2    \* extract_multiple calls made on one extraction manager
MaxInputUrls == 2       \* longest URL list handed to the extractor agent directly
MaxDocs == 3            \* longest document list handed to the summarizer agent directly
MaxLLMCalls == 2        \* generate_completion calls made on one LLM service
MaxClock == 64          \* seconds of the LLM service's clock that are explored
MaxPrompts == 3         \* longest prompt list of one batch of completions
MaxSentences == 3       \* most sentences in a text handed to the chunker
MaxExecutions == 2      \* execute calls made on one agent

\* ------------------------------------------------------- program constants
DefaultMaxAgeHours == 24
max_history == 100
compression_threshold == 50
CompressDays == 7
min_sources_for_analysis == 1
max_concurrent_extractions == 5
extraction_max_retries == 2
MaxExtractionUrls == 50

\* One clock step of the model: the default lifetime of a cache entry, so that
\* an entry is seen at ages 0, exactly the lifetime, and beyond it.
TickHours == DefaultMaxAgeHours
\* A max_age_hours that no age the clock reaches exceeds.
Unbounded == (MaxTicks + 1) * TickHours

Contents == 1..NumContents
Topics == 1..NumTopics
Sources == {"research", "summary", "synthesis"}
\* A direct add_documents call leaves source at its default.
DefaultSource == "research"
None == [kind |-> "None"]

VARIABLES
    now,                  \* datetime.now(), in hours
    collection,           \* VectorMemoryManager.collection: sequence of stored items
    content_hashes,       \* VectorMemoryManager.content_hashes
    research_cache,       \* AgentMemoryManager.research_cache: topic -> entry or None
    conversation_history, \* AgentMemoryManager.conversation_history
    memory_file,          \* AgentMemoryManager.memory_file: what _save_memory last wrote
    last_call,            \* the last direct call that returns a value, with its result
    run,                  \* locals of the current run_pipeline_with_memory invocation
    extraction,           \* ContentExtractionManager: its semaphore and its tasks
    llm,                  \* LLMService: request_timestamps, the clock, its calls
    agent                 \* one BaseAgent: its state, its metrics, its execute call

memvars == <<collection, content_hashes, research_cache, conversation_history, memory_file>>
svcvars == <<extraction, llm, agent>>
vars == <<now, collection, content_hashes, research_cache, conversation_history, memory_file,
          last_call, run, extraction, llm, agent>>

\* ------------------------------------------------------------ vector store
compute_hash(content) == <<"md5", content>>

is_duplicate(content) == compute_hash(content) \in content_hashes

\* The loop of add_documents, were it to leave content_hashes as it found it.
RECURSIVE add_documents_loop_no_hash(_, _, _, _, _)
add_documents_loop_no_hash(documents, source, check_duplicates, hashes, acc) ==
    IF documents = <<>> THEN [hashes |-> hashes, acc |-> acc]
    ELSE LET content == Head(documents)
             content_hash == compute_hash(content)
         IN IF check_duplicates /\ content_hash \in hashes
            THEN add_documents_loop_no_hash(Tail(documents), source, check_duplicates, hashes,
                     [acc EXCEPT !.skipped = @ + 1])
            ELSE add_documents_loop_no_hash(Tail(documents), source, check_duplicates,
                     hashes,
                     [acc EXCEPT !.added = @ + 1,
                                 !.to_add = Append(@, [content_hash |-> content_hash,
                                                       source |-> source,
                                                       timestamp |-> now])])

\* The loop of add_documents over a batch: hashes is the dedup set as the loop
\* has updated it so far, acc the lists and counters built so far.
RECURSIVE add_documents_loop(_, _, _, _, _)
add_documents_loop(documents, source, check_duplicates, hashes, acc) ==
    IF documents = <<>> THEN [hashes |-> hashes, acc |-> acc]
    ELSE LET content == Head(documents)
             content_hash == compute_hash(content)
         IN IF check_duplicates /\ content_hash \in hashes
            THEN add_documents_loop(Tail(documents), source, check_duplicates, hashes,
                     [acc EXCEPT !.skipped = @ + 1])
            ELSE add_documents_loop(Tail(documents), source, check_duplicates,
                     hashes \cup {content_hash},
                     [acc EXCEPT !.added = @ + 1,
                                 !.to_add = Append(@, [content_hash |-> content_hash,
                                                       source |-> source,
                                                       timestamp |-> now])])

\* add_documents on a store (coll, hashes): the store afterwards and the stats.
add_documents(coll, hashes, documents, source, check_duplicates) ==
    LET r == add_documents_loop(documents, source, check_duplicates, hashes,
                                [added |-> 0, skipped |-> 0, to_add |-> <<>>])
        coll2 == coll \o r.acc.to_add
    IN [collection |-> coll2,
        content_hashes |-> r.hashes,
        stats |-> [added |-> r.acc.added, skipped |-> r.acc.skipped,
                   total_in_db |-> Len(coll2)]]

timedelta_days(days) == days * 24
timedelta_hours(hours) == hours

IsOld(item, days) == item.timestamp < now - timedelta_days(days)

\* clear_old_documents with the discard of the hash moved out of the age test.
clear_old_documents_discard_all(coll, hashes, days) ==
    LET ids_to_delete == {i \in 1..Len(coll) : IsOld(coll[i], days)}
        keep(item) == ~IsOld(item, days)
    IN [collection |-> SelectSeq(coll, keep),
        content_hashes |-> hashes \ {coll[i].content_hash : i \in 1..Len(coll)},
        deleted |-> Cardinality(ids_to_delete)]

\* clear_old_documents on a store: the store afterwards and the number deleted.
clear_old_documents(coll, hashes, days) ==
    LET ids_to_delete == {i \in 1..Len(coll) : IsOld(coll[i], days)}
        keep(item) == ~IsOld(item, days)
    IN [collection |-> SelectSeq(coll, keep),
        content_hashes |-> hashes \ {coll[i].content_hash : i \in ids_to_delete},
        deleted |-> Cardinality(ids_to_delete)]

\* ------------------------------------------------------------ agent memory
\* get_research_result, were the age test >= instead of >.
get_research_result_ge(topic, max_age_hours) ==
    IF research_cache[topic] = None THEN None
    ELSE IF now - research_cache[topic].timestamp >= timedelta_hours(max_age_hours) THEN None
    ELSE research_cache[topic].result

\* get_research_result, were it to return the entry whatever its age.
get_research_result_any_age(topic, max_age_hours) ==
    IF research_cache[topic] = None THEN None
    ELSE research_cache[topic].result

get_research_result(topic, max_age_hours) ==
    IF research_cache[topic] = None THEN None
    ELSE IF now - research_cache[topic].timestamp > timedelta_hours(max_age_hours) THEN None
    ELSE research_cache[topic].result

add_research_result(cache, topic, result) ==
    [cache EXCEPT ![topic] = [result |-> result, timestamp |-> now]]

\* deque(maxlen=max_history).append
\* An append to a list with no maxlen.
list_append(history, entry) == Append(history, entry)

deque_append(history, entry) ==
    IF Len(history) >= max_history THEN Append(Tail(history), entry)
    ELSE Append(history, entry)

\* _compress_memory, were it to drop every entry older than the default TTL.
compress_memory_ttl(cache) ==
    [t \in DOMAIN cache |->
        IF cache[t] # None /\ cache[t].timestamp < now - timedelta_hours(DefaultMaxAgeHours)
        THEN None ELSE cache[t]]

\* _compress_memory, were it to empty the cache.
compress_memory_all(cache) == [t \in DOMAIN cache |-> None]

\* _compress_memory: drop the cache entries older than 7 days.
compress_memory(cache) ==
    [t \in DOMAIN cache |->
        IF cache[t] # None /\ cache[t].timestamp < now - timedelta_days(CompressDays)
        THEN None ELSE cache[t]]

\* add_conversation on (history, cache): both afterwards.
add_conversation(history, cache, user_message) ==
    LET h2 == deque_append(history, [timestamp |-> now, user |-> user_message])
    IN [conversation_history |-> h2,
        research_cache |-> IF Len(h2) >= compression_threshold
                           THEN compress_memory(cache) ELSE cache]

\* _save_memory: the pickle of the log and the cache.
save_memory(history, cache) ==
    [kind |-> "pickle", conversation_history |-> history, research_cache |-> cache]

\* __init__ then _load_memory: empty structures, replaced by the file's when
\* the file exists.
load_memory(file) ==
    IF file = None
    THEN [conversation_history |-> <<>>, research_cache |-> [t \in Topics |-> None]]
    ELSE [conversation_history |-> file.conversation_history,
          research_cache |-> file.research_cache]

\* _load_existing_hashes: the content_hash of every stored item.
load_existing_hashes(coll) == {coll[i].content_hash : i \in 1..Len(coll)}

\* A reset that empties the log and leaves the cache as it is.
clear_all_keep_cache ==
    [conversation_history |-> <<>>, research_cache |-> research_cache]

\* clear_all on the agent memory.
clear_all ==
    [conversation_history |-> <<>>, research_cache |-> [t \in Topics |-> None]]

\* list(conversation_history)[-n_last:] for n_last >= 0: -0 is 0, and [0:] is
\* the whole list.
last_entries(history, n_last) ==
    IF n_last = 0 \/ n_last >= Len(history) THEN history
    ELSE SubSeq(history, Len(history) - n_last + 1, Len(history))

\* ------------------------------------------------------- pipeline objects
\* Texts stored by the persist step, as contents distinct from the documents':
\* the detailed summary the LLM wrote for content c, the text "Erreur: ..." that
\* _get_llm_response returns when the LLM failed, the text of an error summary,
\* and the text rendering of a report.
DetailedSummaryText(c) == NumContents + c
ErreurText == 2 * NumContents + 1
ErrorSummaryText == 2 * NumContents + 2
SynthesisText == 2 * NumContents + 3

HasAttr(obj, name) == name \in DOMAIN obj

\* "Sujet de synthèse", the topic process_from_summarization_output falls
\* back on: a topic that is none of Topics.
DefaultTopic == 0

\* FinalReport as _assemble_final_report builds it. The class has no field
\* formatted_outputs; the renderings are a field of GlobalSynthesisOutput.
FinalReport(topic, sections, executive_summary, sources) ==
    [kind |-> "FinalReport", topic |-> topic, main_sections |-> sections,
     executive_summary |-> executive_summary, sources |-> sources]

GlobalSynthesisOutput(final_report) ==
    [kind |-> "GlobalSynthesisOutput",
     final_report |-> final_report,
     formatted_outputs |-> [markdown |-> [format |-> "markdown", report |-> final_report],
                            text |-> [format |-> "text", report |-> final_report],
                            html |-> [format |-> "html", report |-> final_report]]]

\* A pydantic model is truthy, None is not.
Truthy(obj) == obj # None

Raised(error, stage) == [kind |-> "raise", value |-> error, stage |-> stage]
Returned(value) == [kind |-> "return", value |-> value, stage |-> "return"]
NoOutcome == [kind |-> "none", value |-> "none", stage |-> "none"]

IdleRun ==
    [pc |-> "idle", topic |-> 0, use_cache |-> FALSE, cached_result |-> None,
     research_data |-> None, extraction_data |-> None, summarization_data |-> None,
     global_synthesis |-> None, outcome |-> NoOutcome, stages |-> <<>>]

NoCall == [op |-> "none"]

\* ---------------------------------------------------------------- stages
\* DocumentSummary for one document: what _summarize_all_documents yields when
\* the LLM answered ("ok"), when _get_llm_response turned an LLM failure into
\* text ("llm_error"), and when summarize_single caught an exception ("error").
DocumentSummary(doc, how) ==
    [url |-> doc.url,
     detailed_summary |-> CASE how = "ok" -> DetailedSummaryText(doc.content)
                            [] how = "llm_error" -> ErreurText
                            [] OTHER -> ErrorSummaryText,
     sentiment |-> CASE how = "ok" -> "parsed"
                     [] how = "llm_error" -> "neutre"
                     [] OTHER -> "null",
     credibility_score |-> IF how = "error" THEN "null" ELSE "score"]

SummaryOutcomes == {"ok", "llm_error", "error"}

\* The content of a document whose text is empty or blank.
EmptyContent == 0 - 1

\* [doc for doc in input_data.documents if doc.content and doc.content.strip()]
valid_documents(documents) ==
    SelectSeq(documents, LAMBDA doc : doc.content # EmptyContent)

\* A validate_input that accepts every list of documents.
summarizer_accepts_all(documents) == TRUE

\* SummarizerAgent.validate_input
summarizer_validate_input(documents) ==
    /\ documents # <<>>
    /\ Len(documents) <= 20
    /\ valid_documents(documents) # <<>>

\* _calculate_average_credibility
average_credibility(summaries) ==
    IF \E i \in 1..Len(summaries) : summaries[i].credibility_score # "null"
    THEN "score" ELSE "null"

ContentsOf(documents) == [i \in 1..Len(documents) |-> documents[i].content]
SummaryTextsOf(summaries) == [i \in 1..Len(summaries) |-> summaries[i].detailed_summary]

\* -------------------------------------------------------------- base agent
\* max_retries as each agent's constructor hands it to BaseAgent.__init__
AgentMaxRetries == [researcher |-> 3, content_extractor |-> 2]

\* What process raises when it fails: ContentExtractorAgent.process wraps
\* every exception in ContentExtractionError, the researcher's failures are
\* plain exceptions.
process_error(kind) ==
    IF kind = "content_extractor" THEN "ContentExtractionError" ELSE "Exception"

\* BaseAgent.__init__: AgentState() and the metrics; no execute call yet.
\* errors is the exception of each failed attempt of the current execute
\* call, process_calls the number of times it has called process.
NewAgent(kind) ==
    [kind |-> kind, status |-> "idle", retry_count |-> 0,
     total_executions |-> 0, successful_executions |-> 0,
     failed_executions |-> 0,
     pc |-> "idle", input_valid |-> TRUE, attempt |-> 0, process_calls |-> 0,
     errors |-> <<>>, raised |-> "none"]

\* for attempt in range(self.max_retries + 1): is there a round after this?
agent_one_more_attempt(a) == a.attempt < AgentMaxRetries[a.kind] + 1

agent_has_next_attempt(a) == a.attempt < AgentMaxRetries[a.kind]

\* The validation branch without its count of the failure.
validation_failed_uncounted(a) ==
    [a EXCEPT !.status = "error", !.pc = "raised", !.raised = "ValueError"]

\* if not self.validate_input(input_data): mark_error, count, raise ValueError
validation_failed(a) ==
    [a EXCEPT !.status = "error", !.failed_executions = @ + 1,
              !.pc = "raised", !.raised = "ValueError"]

\* The code after the loop: mark_error, count, raise Exception(final_error)
all_attempts_failed(a) ==
    [a EXCEPT !.status = "error", !.failed_executions = @ + 1,
              !.pc = "raised", !.raised = "Exception"]

\* The next round of the loop: process is called again.
next_attempt(a) ==
    [a EXCEPT !.pc = "processing", !.attempt = @ + 1, !.process_calls = @ + 1]

\* execute up to its first await: start_execution, the count, validate_input,
\* then ValueError or the first call of process.
AgentExecute(valid) ==
    /\ agent.pc \in {"idle", "returned", "raised"}
    /\ agent.total_executions < MaxExecutions
    /\ LET started == [agent EXCEPT
                          !.status = "working", !.total_executions = @ + 1,
                          !.input_valid = valid, !.attempt = 0,
                          !.process_calls = 0, !.errors = <<>>,
                          !.raised = "none"]
       IN agent' = IF valid
                   THEN [started EXCEPT !.pc = "processing", !.process_calls = 1]
                   ELSE validation_failed(started)
    /\ UNCHANGED <<extraction, llm, now, memvars, last_call, run>>

\* process returns within the timeout: complete_execution, the count, return.
ProcessReturns ==
    /\ agent.pc = "processing"
    /\ agent' = [agent EXCEPT !.status = "completed",
                              !.successful_executions = @ + 1,
                              !.pc = "returned"]
    /\ UNCHANGED <<extraction, llm, now, memvars, last_call, run>>

\* except asyncio.TimeoutError: no sleep, the next round or the end.
ProcessTimesOut ==
    /\ agent.pc = "processing"
    /\ LET failed == [agent EXCEPT !.retry_count = @ + 1,
                                   !.errors = Append(@, "TimeoutError")]
       IN agent' = IF agent_has_next_attempt(agent) THEN next_attempt(failed)
                   ELSE all_attempts_failed(failed)
    /\ UNCHANGED <<extraction, llm, now, memvars, last_call, run>>

\* except Exception: sleep 2 ** attempt before the next round, or the end.
ProcessRaises ==
    /\ agent.pc = "processing"
    /\ LET failed == [agent EXCEPT
                         !.retry_count = @ + 1,
                         !.errors = Append(@, process_error(agent.kind))]
       IN agent' = IF agent_has_next_attempt(agent)
                   THEN [failed EXCEPT !.pc = "sleeping"]
                   ELSE all_attempts_failed(failed)
    /\ UNCHANGED <<extraction, llm, now, memvars, last_call, run>>

\* asyncio.sleep(wait_time) ends.
AgentSleepEnds ==
    /\ agent.pc = "sleeping"
    /\ agent' = next_attempt(agent)
    /\ UNCHANGED <<extraction, llm, now, memvars, last_call, run>>

\* ------------------------------------------------------- summarizer agent
\* The summarize_single tasks in the order they finish: order[k] is the task
\* that finishes k-th.
completed_tasks(documents, how, order) ==
    [k \in 1..Len(documents) |->
        [task |-> order[k],
         summary |-> DocumentSummary(documents[order[k]], how[order[k]])]]

\* asyncio.gather(*tasks): the results in the order of the tasks.
gather(completed) ==
    [i \in 1..Len(completed) |->
        completed[CHOOSE k \in 1..Len(completed) : completed[k].task = i].summary]

\* SummarizerAgent.process
summarizer_process(documents, how, order) ==
    LET summaries == gather(completed_tasks(valid_documents(documents), how, order))
    IN [summaries |-> summaries,
        total_documents |-> Len(documents),
        average_credibility |-> average_credibility(summaries)]

\* agent.process(SummarizationInput(documents)): no validate_input.
SummarizerProcess(documents, how, order) ==
    /\ run.pc = "idle"
    /\ last_call' = [op |-> "summarizer_process", documents |-> documents,
                     how |-> how, order |-> order, raised |-> FALSE,
                     output |-> summarizer_process(documents, how, order)]
    /\ UNCHANGED <<svcvars, now, memvars, run>>

\* agent.execute(SummarizationInput(documents)), and likewise
\* process_from_extraction_result: validate_input, then process.
SummarizerExecute(documents, how, order) ==
    /\ run.pc = "idle"
    /\ last_call' =
          IF summarizer_validate_input(documents)
          THEN [op |-> "summarizer_execute", documents |-> documents,
                how |-> how, order |-> order, raised |-> FALSE,
                output |-> summarizer_process(documents, how, order)]
          ELSE [op |-> "summarizer_execute", documents |-> documents,
                how |-> how, order |-> order, raised |-> TRUE]
    /\ UNCHANGED <<svcvars, now, memvars, run>>

\* -------------------------------------------------------- extractor agent
\* URL strings, by their parts: scheme://host, then the path.
SampleUrls == [scheme : {"https", "ftp"}, host : {"a.org", ""}, path : {"", "/p"}]

\* _filter_valid_urls keeps, in order, the URLs that match url_pattern and
\* have a netloc: http or https, and a host.
valid_url(url) == url.scheme \in {"http", "https"} /\ url.host # ""

\* A filter that lets every URL through.
keep_all_urls(urls) == urls

filter_valid_urls(urls) == SelectSeq(urls, valid_url)

\* str(doc.url): Document.url is a pydantic HttpUrl, which gives an empty path
\* as "/".
HttpUrl(url) == [url EXCEPT !.path = IF @ = "" THEN "/" ELSE @]

\* What becomes of one URL handed to extract_multiple: a document that
\* passes the content filters and the final validation, a document that
\* they reject, or no document (every attempt failed).
FetchOutcomes == {"document", "rejected", "failed"}

\* processed_documents: the documents kept, in the order of valid_urls.
processed_documents(valid_urls, outcome) ==
    LET Doc(i) == [url |-> HttpUrl(valid_urls[i]), fetched_as |-> i]
        kept == SelectSeq([i \in 1..Len(valid_urls) |-> i],
                          LAMBDA i : outcome[i] = "document")
    IN [k \in 1..Len(kept) |-> Doc(kept[k])]

\* failed_urls, were it the URLs whose own fetch gave no document.
failed_urls_by_fetch(valid_urls, documents) ==
    LET fetched == {documents[k].fetched_as : k \in 1..Len(documents)}
        idx == SelectSeq([i \in 1..Len(valid_urls) |-> i], LAMBDA i : i \notin fetched)
    IN [k \in 1..Len(idx) |-> valid_urls[idx[k]]]

\* failed_urls = [url for url in valid_urls if url not in successful_urls]
failed_urls_of(valid_urls, documents) ==
    LET successful_urls == {documents[k].url : k \in 1..Len(documents)}
    IN SelectSeq(valid_urls, LAMBDA url : url \notin successful_urls)

\* ContentExtractorAgent.process: the fetched URLs and the ExtractionResult.
extractor_process(urls, outcome) ==
    LET valid_urls == filter_valid_urls(urls)
        documents == processed_documents(valid_urls, outcome)
    IN [fetched |-> valid_urls,
        result |-> [documents |-> documents,
                    total_urls |-> Len(urls),
                    successful_extractions |-> Len(documents),
                    failed_extractions |-> Len(urls) - Len(documents),
                    failed_urls |-> failed_urls_of(valid_urls, documents)]]

\* ContentExtractorAgent.validate_input
extractor_validate_input(urls) ==
    /\ urls # <<>>
    /\ Len(urls) <= MaxExtractionUrls
    /\ filter_valid_urls(urls) # <<>>

\* agent.process(ExtractionInput(urls=urls)), as process_from_research_output
\* calls it: no validate_input.
ExtractorProcess(urls, outcome) ==
    /\ run.pc = "idle"
    /\ LET r == extractor_process(urls, outcome)
       IN last_call' = [op |-> "extractor_process", urls |-> urls, raised |-> FALSE,
                        fetched |-> r.fetched, result |-> r.result]
    /\ UNCHANGED <<svcvars, now, memvars, run>>

\* agent.execute(ExtractionInput(urls=urls)): validate_input, then process.
ExtractorExecute(urls, outcome) ==
    /\ run.pc = "idle"
    /\ LET r == extractor_process(urls, outcome)
       IN last_call' =
             IF extractor_validate_input(urls)
             THEN [op |-> "extractor_execute", urls |-> urls, raised |-> FALSE,
                   fetched |-> r.fetched, result |-> r.result]
             ELSE [op |-> "extractor_execute", urls |-> urls, raised |-> TRUE,
                   fetched |-> <<>>]
    /\ UNCHANGED <<svcvars, now, memvars, run>>

\* ---------------------------------------------------- extraction manager
\* ContentExtractionManager.__init__: asyncio.Semaphore(max_concurrent), and no
\* task yet.  A task is one _extract_with_retry coroutine; tasks is the bag of
\* the coroutines created so far, each with the log of what it did.
IdleExtraction ==
    [semaphore |-> max_concurrent_extractions, calls |-> 0, tasks |-> EmptyBag]

NewTask(call) == [call |-> call, pc |-> "waiting", attempt |-> 0, log |-> <<>>]

Event(event, attempt, seconds) ==
    [event |-> event, attempt |-> attempt, seconds |-> seconds]

\* A semaphore that never blocks.
always_free(value) == TRUE

\* "async with self.semaphore" enters when the semaphore's value is positive.
semaphore_free(value) == value > 0

\* A loop with one more round.
one_more_attempt(attempt) == attempt + 1 < extraction_max_retries + 2

\* for attempt in range(self.max_retries + 1): there is a next round.
has_next_attempt(attempt) == attempt + 1 < extraction_max_retries + 1

\* asyncio.sleep(2 ** attempt)
backoff(attempt) == 2 ^ attempt

Finished(task) == task.pc \in {"returned", "raised"}
InProgress(task) == task.pc \in {"fetching", "sleeping"}

\* One task of the bag replaced by its next state.
Step(task, next) == (extraction.tasks (-) SetToBag({task})) (+) SetToBag({next})

\* extract_multiple(urls) with n URLs: one _extract_with_retry coroutine each,
\* handed to asyncio.gather.
ExtractMultiple(n) ==
    /\ run.pc = "idle"
    /\ extraction.calls < MaxExtractCalls
    /\ BagCardinality(extraction.tasks) + n <= NumTasks
    /\ LET call == extraction.calls + 1
           new == [t \in {NewTask(call)} |-> n]
       IN extraction' = [extraction EXCEPT !.calls = call, !.tasks = @ (+) new]
    /\ UNCHANGED <<llm, agent, now, memvars, last_call, run>>

\* A waiting task enters "async with self.semaphore" and starts attempt 0.
Acquire(task) ==
    /\ BagIn(task, extraction.tasks)
    /\ task.pc = "waiting"
    /\ semaphore_free(extraction.semaphore)
    /\ extraction' = [extraction EXCEPT
                         !.semaphore = @ - 1,
                         !.tasks = Step(task, [task EXCEPT !.pc = "fetching"])]
    /\ UNCHANGED <<llm, agent, now, memvars, last_call, run>>

\* extract_content returns a Document: the task returns it and leaves the
\* semaphore.
FetchReturns(task) ==
    /\ BagIn(task, extraction.tasks)
    /\ task.pc = "fetching"
    /\ extraction' = [extraction EXCEPT
                         !.semaphore = @ + 1,
                         !.tasks = Step(task,
                             [task EXCEPT !.pc = "returned",
                                  !.log = Append(@, Event("fetch_ok", task.attempt, 0))])]
    /\ UNCHANGED <<llm, agent, now, memvars, last_call, run>>

\* extract_content raises: the next round of the loop starts with its sleep,
\* or, after the last round, the task raises and leaves the semaphore.
FetchRaises(task) ==
    /\ BagIn(task, extraction.tasks)
    /\ task.pc = "fetching"
    /\ LET log == Append(task.log, Event("fetch_failed", task.attempt, 0))
       IN IF has_next_attempt(task.attempt)
          THEN extraction' = [extraction EXCEPT
                                !.tasks = Step(task,
                                    [task EXCEPT !.pc = "sleeping",
                                         !.attempt = @ + 1, !.log = log])]
          ELSE extraction' = [extraction EXCEPT
                                !.semaphore = @ + 1,
                                !.tasks = Step(task,
                                    [task EXCEPT !.pc = "raised", !.log = log])]
    /\ UNCHANGED <<llm, agent, now, memvars, last_call, run>>

\* asyncio.sleep(2 ** attempt) is over: the task calls extract_content again.
SleepEnds(task) ==
    /\ BagIn(task, extraction.tasks)
    /\ task.pc = "sleeping"
    /\ extraction' = [extraction EXCEPT
                         !.tasks = Step(task,
                             [task EXCEPT !.pc = "fetching",
                                  !.log = Append(@, Event("sleep", task.attempt,
                                                          backoff(task.attempt)))])]
    /\ UNCHANGED <<llm, agent, now, memvars, last_call, run>>

\* asyncio.gather of one call is done: extract_multiple returns the documents
\* and logs the failures.
ExtractMultipleReturns(call) ==
    /\ call \in 1..extraction.calls
    /\ LET mine == {t \in BagToSet(extraction.tasks) : t.call = call}
           Count(pc) == BagCardinality([t \in {m \in mine : m.pc = pc} |->
                                           CopiesIn(t, extraction.tasks)])
       IN /\ \A t \in mine : Finished(t)
          /\ last_call' = [op |-> "extract_multiple", call |-> call,
                           documents |-> Count("returned"), failed |-> Count("raised")]
    /\ UNCHANGED <<svcvars, now, memvars, run>>


\* ------------------------------------------------------------ LLM service
\* LLMService.__init__, then k requests sent at second 0.  The clock of the
\* service is time.time() in seconds; sent is every request ever sent.
FreshLLM(k) ==
    [clock |-> 0,
     request_timestamps |-> [i \in 1..k |-> 0],
     sent |-> [i \in 1..k |-> 0],
     calls |-> EmptyBag]

\* self.rate_limit_requests, and the minute it is counted over
rate_limit_requests == 30
RateWindow == 60

\* _make_api_call(payload, max_retries=3)
llm_max_retries == 3

\* aiohttp.ClientTimeout(total=60)
RequestTimeout == 60

\* What one HTTP request can come to: 200 with content, 200 with empty
\* content, 429, another status, no response within the timeout.
Responses == {"ok", "empty", "429", "500", "timeout"}

\* int(response.headers.get("retry-after", 60)): a header of 1 s, or none.
RetryAfter == {1, 60}

\* One generate_completion call.  posts is the number of HTTP requests it has
\* sent, last the outcome of the latest one, wake the second at which its
\* sleep or its request's timeout ends.
NewCall(pc, wake) ==
    [pc |-> pc, attempt |-> 0, posts |-> 0, last |-> "none", wake |-> wake,
     error |-> "none"]

\* [ts for ts in self.request_timestamps if current_time - ts < 60]
recent(timestamps, current_time) ==
    SelectSeq(timestamps, LAMBDA ts : current_time - ts < RateWindow)

\* min(self.request_timestamps); the list is in the order of the appends.
oldest_request(timestamps) ==
    CHOOSE ts \in {timestamps[i] : i \in 1..Len(timestamps)} :
        \A i \in 1..Len(timestamps) : ts <= timestamps[i]

\* for attempt in range(max_retries + 1): is there a round after this one?
llm_one_more_attempt(attempt) == attempt < llm_max_retries + 1

llm_has_next_attempt(attempt) == attempt < llm_max_retries

\* The sleep before the next round: retry_after on 429, 2 ** attempt else.
retry_delay(response, attempt, retry_after) ==
    IF response = "429" THEN retry_after ELSE 2 ^ attempt

\* The exception raised inside the try block on the last round.
raised_in_try(response) ==
    IF response = "429" THEN "LLMRateLimitError" ELSE "LLMError"

\* except Exception as e: raise LLMError(f"Erreur de connexion: {str(e)}")
except_exception(e) == "LLMError"

\* What the caller gets when the last round fails: asyncio.TimeoutError has
\* its own handler, every exception raised in the try block goes through
\* except Exception.
final_error(response) ==
    IF response = "timeout" THEN "LLMError"
    ELSE except_exception(raised_in_try(response))

LLMStep(call, next) ==
    (llm.calls (-) SetToBag({call})) (+) SetToBag({next})

\* generate_completion up to its first suspension: _check_rate_limits drops
\* the old timestamps and sleeps when rate_limit_requests remain, otherwise
\* _make_api_call starts.
GenerateCompletion ==
    LET kept == recent(llm.request_timestamps, llm.clock)
        call == IF Len(kept) >= rate_limit_requests
                THEN NewCall("rate_sleeping",
                             llm.clock + RateWindow
                                 - (llm.clock - oldest_request(kept)))
                ELSE NewCall("posting", llm.clock)
    IN /\ BagCardinality(llm.calls) < MaxLLMCalls
       /\ llm' = [llm EXCEPT !.request_timestamps = kept,
                             !.calls = @ (+) SetToBag({call})]
       /\ UNCHANGED <<now, memvars, last_call, run, extraction, agent>>

\* asyncio.sleep ends: after the rate-limit sleep the first round starts,
\* after a retry sleep the next round (continue).
WakeUp(call) ==
    /\ call.pc \in {"rate_sleeping", "sleeping"}
    /\ llm.clock >= call.wake
    /\ llm' = [llm EXCEPT !.calls =
                 LLMStep(call, [call EXCEPT
                     !.pc = "posting",
                     !.attempt = IF call.pc = "sleeping" THEN @ + 1 ELSE @])]
    /\ UNCHANGED <<now, memvars, last_call, run, extraction, agent>>

\* session.post(url, ...): the request leaves.
Post(call) ==
    /\ call.pc = "posting"
    /\ llm' = [llm EXCEPT
                 !.sent = Append(@, llm.clock),
                 !.calls = LLMStep(call, [call EXCEPT
                     !.pc = "in_flight", !.posts = @ + 1,
                     !.wake = llm.clock + RequestTimeout])]
    /\ UNCHANGED <<now, memvars, last_call, run, extraction, agent>>

\* The rest of the round: the response arrives before the timeout and its
\* timestamp is recorded, or the timeout strikes; then return, sleep before
\* the next round, or raise.
Respond(call, response, retry_after) ==
    /\ call.pc = "in_flight"
    /\ IF response = "timeout" THEN llm.clock >= call.wake
                                ELSE llm.clock < call.wake
    /\ llm' = [llm EXCEPT
                 !.request_timestamps =
                     IF response = "timeout" THEN @ ELSE Append(@, llm.clock),
                 !.calls = LLMStep(call,
                     IF response = "ok"
                     THEN [call EXCEPT !.pc = "returned", !.last = response]
                     ELSE IF llm_has_next_attempt(call.attempt)
                     THEN [call EXCEPT
                             !.pc = "sleeping", !.last = response,
                             !.wake = llm.clock + retry_delay(response,
                                          call.attempt, retry_after)]
                     ELSE [call EXCEPT
                             !.pc = "raised", !.last = response,
                             !.error = final_error(response)])]
    /\ UNCHANGED <<now, memvars, last_call, run, extraction, agent>>

\* The seconds at which a sleep or a request's timeout ends.
Timers ==
    {call.wake : call \in {c \in BagToSet(llm.calls) :
                              c.pc \in {"rate_sleeping", "sleeping", "in_flight"}}}

\* Time passes until the next timer is due.
Elapse ==
    /\ Timers # {}
    /\ LET next == CHOOSE t \in Timers : \A u \in Timers : t <= u
       IN /\ next > llm.clock
          /\ next <= MaxClock
          /\ llm' = [llm EXCEPT !.clock = next]
    /\ UNCHANGED <<now, memvars, last_call, run, extraction, agent>>

\* ------------------------------------------------------ batch completions
\* The prompts of a batch are one of two texts each.
PromptTexts == {"p", "q"}

CompletionOutcomes == {"ok", "raises"}

\* generate_single(prompt, index): the tuple it returns, the completion or,
\* when generate_completion raised, the error string.
generate_single(prompt, index, outcome) ==
    [index |-> index,
     content |-> IF outcome = "ok" THEN <<"completion", prompt>>
                 ELSE <<"ERREUR", prompt>>]

\* The generate_single tasks in the order they finish.
finished_singles(prompts, outcome, order) ==
    [k \in 1..Len(prompts) |->
        [task |-> order[k],
         result |-> generate_single(prompts[order[k]], order[k],
                                    outcome[order[k]])]]

\* results = await asyncio.gather(*tasks, return_exceptions=True)
batch_gather(finished) ==
    [i \in 1..Len(finished) |->
        finished[CHOOSE k \in 1..Len(finished) : finished[k].task = i].result]

\* Every result taken for an exception: ordered_results.append(...)
append_results(ordered, results) ==
    ordered \o [i \in 1..Len(results) |-> results[i].content]

\* ordered_results = [""] * len(prompts), then ordered_results[index] =
\* content for each tuple of results.
RECURSIVE place_results(_, _)
place_results(ordered, results) ==
    IF results = <<>> THEN ordered
    ELSE place_results([ordered EXCEPT ![Head(results).index] =
                            Head(results).content],
                       Tail(results))

ordered_results(prompts, outcome, order) ==
    place_results([i \in 1..Len(prompts) |-> ""],
                  batch_gather(finished_singles(prompts, outcome, order)))

\* LLMService.generate_batch_completions
GenerateBatchCompletions(prompts, outcome, order) ==
    /\ run.pc = "idle"
    /\ last_call' = [op |-> "generate_batch_completions", prompts |-> prompts,
                     outcome |-> outcome, order |-> order, raised |-> FALSE,
                     result |-> ordered_results(prompts, outcome, order)]
    /\ UNCHANGED <<svcvars, now, memvars, run>>

\* ------------------------------------------------------------ text chunker
\* ChunkingManager.chunkers: the registry of strategies.
Strategies ==
    [default |-> [max_chunk_size |-> 4000, overlap_size |-> 200, min_chunk_size |-> 500],
     small   |-> [max_chunk_size |-> 2000, overlap_size |-> 100, min_chunk_size |-> 500],
     large   |-> [max_chunk_size |-> 20000, overlap_size |-> 300, min_chunk_size |-> 500],
     precise |-> [max_chunk_size |-> 3000, overlap_size |-> 150, min_chunk_size |-> 800]]

\* A text is a sequence of sentences.  A sentence is the length of its body,
\* which holds no sentence ending, its ending being one '.'; it is followed
\* by a blank line when para_end holds and by one space otherwise.
SentenceLengths == {120, 2500, 4500}

Sentences == [body : SentenceLengths, para_end : BOOLEAN]

RECURSIVE sum(_)
sum(lengths) == IF lengths = <<>> THEN 0 ELSE Head(lengths) + sum(Tail(lengths))

\* len() of sentence bodies written 'a. b. c.'
chars(pieces) ==
    IF pieces = <<>> THEN 0 ELSE sum(pieces) + 2 * Len(pieces) - 1

bodies(text) == [i \in 1..Len(text) |-> text[i].body]

\* The blank lines inside a text: each is one character more than a space.
blank_lines(text) ==
    Cardinality({i \in 1..(Len(text) - 1) : text[i].para_end})

text_len(text) == chars(bodies(text)) + blank_lines(text)

\* _clean_text: re.sub(r'\s+', ' ', text) turns every run of whitespace,
\* blank lines included, into one space.
clean_text(text) == [i \in 1..Len(text) |-> [text[i] EXCEPT !.para_end = FALSE]]

\* re.split(self.paragraph_breaks, text): the bodies of each paragraph.
RECURSIVE split_paragraphs(_, _)
split_paragraphs(text, paragraph) ==
    IF text = <<>>
    THEN IF paragraph = <<>> THEN <<>> ELSE <<paragraph>>
    ELSE IF Head(text).para_end
         THEN <<Append(paragraph, Head(text).body)>>
                  \o split_paragraphs(Tail(text), <<>>)
         ELSE split_paragraphs(Tail(text), Append(paragraph, Head(text).body))

\* _get_overlap_text on a chunk 'a. b. c.': nothing when the chunk is no
\* longer than overlap_size; otherwise the last overlap_size characters are
\* split at the sentence endings, the first piece is dropped, and the rest,
\* the empty piece after the final '.' included, is joined with '. ' and
\* ended with '. '.  A body is in the rest when the '.' before it is within
\* the last overlap_size characters.
get_overlap_text(pieces, overlap_size) ==
    IF chars(pieces) <= overlap_size THEN <<>>
    ELSE LET k == Len(pieces)
             kept == {j \in 2..k : chars(SubSeq(pieces, j, k)) + 2 <= overlap_size}
             first == IF kept = {} THEN k + 1
                      ELSE CHOOSE j \in kept : \A i \in kept : j <= i
         IN Append(SubSeq(pieces, first, k), 0)

\* _chunk_simple: the sentences one by one; sentence_in_text is the body
\* and one '.'.
RECURSIVE chunk_simple(_, _, _, _)
chunk_simple(sentences, chunks, current_chunk, size) ==
    IF sentences = <<>>
    THEN IF current_chunk # <<>> THEN Append(chunks, chars(current_chunk))
         ELSE chunks
    ELSE IF /\ chars(current_chunk) + Head(sentences) + 1 > size.max_chunk_size
            /\ current_chunk # <<>>
         THEN chunk_simple(Tail(sentences),
                           Append(chunks, chars(current_chunk)),
                           Append(get_overlap_text(current_chunk,
                                                   size.overlap_size),
                                  Head(sentences)),
                           size)
         ELSE chunk_simple(Tail(sentences), chunks,
                           Append(current_chunk, Head(sentences)), size)

\* _chunk_with_structure: the paragraphs one by one.  current_chunk is the
\* bodies it holds, joins the paragraphs joined into it with a blank line;
\* the overlap is taken as if those blank lines were spaces.
RECURSIVE chunk_with_structure(_, _, _, _, _)
chunk_with_structure(paragraphs, chunks, current_chunk, joins, size) ==
    IF paragraphs = <<>>
    THEN IF current_chunk # <<>>
         THEN Append(chunks, chars(current_chunk) + joins)
         ELSE chunks
    ELSE IF /\ chars(current_chunk) + joins + chars(Head(paragraphs))
                  > size.max_chunk_size
            /\ current_chunk # <<>>
         THEN chunk_with_structure(
                  Tail(paragraphs),
                  Append(chunks, chars(current_chunk) + joins),
                  get_overlap_text(current_chunk, size.overlap_size)
                      \o Head(paragraphs),
                  0, size)
         ELSE chunk_with_structure(
                  Tail(paragraphs), chunks,
                  current_chunk \o Head(paragraphs),
                  IF current_chunk # <<>> THEN joins + 1 ELSE joins,
                  size)

\* _post_process_chunks: a chunk shorter than min_chunk_size is merged with
\* its successor, a blank line between them, when their two lengths do not
\* exceed max_chunk_size.
RECURSIVE post_process_chunks(_, _, _)
post_process_chunks(chunks, merged_chunks, size) ==
    IF chunks = <<>> THEN merged_chunks
    ELSE IF /\ Head(chunks) < size.min_chunk_size
            /\ Len(chunks) > 1
            /\ Head(chunks) + chunks[2] <= size.max_chunk_size
         THEN post_process_chunks(Tail(Tail(chunks)),
                                  Append(merged_chunks,
                                         Head(chunks) + 2 + chunks[2]),
                                  size)
         ELSE post_process_chunks(Tail(chunks),
                                  Append(merged_chunks, Head(chunks)), size)

\* TextChunker.chunk_text: the len(content) of each chunk.
chunk_text(text, size, preserve_structure) ==
    LET cleaned == clean_text(text)
    IN IF text_len(cleaned) <= size.max_chunk_size
       THEN <<text_len(cleaned)>>
       ELSE post_process_chunks(
                IF preserve_structure
                THEN chunk_with_structure(split_paragraphs(cleaned, <<>>),
                                          <<>>, <<>>, 0, size)
                ELSE chunk_simple(bodies(cleaned), <<>>, <<>>, size),
                <<>>, size)

\* ChunkingManager.chunk_document(content, strategy, preserve_structure)
ChunkDocument(text, strategy, preserve_structure) ==
    /\ run.pc = "idle"
    /\ last_call' = [op |-> "chunk_document", text |-> text,
                     strategy |-> strategy,
                     preserve_structure |-> preserve_structure,
                     raised |-> FALSE,
                     chunks |-> chunk_text(text, Strategies[strategy],
                                           preserve_structure)]
    /\ UNCHANGED <<svcvars, now, memvars, run>>

\* ------------------------------------------------------------------- Init
Init ==
    /\ now = 0
    /\ collection = <<>>
    /\ content_hashes = {}
    /\ research_cache = [t \in Topics |-> None]
    /\ conversation_history = <<>>
    /\ memory_file = None
    /\ last_call = NoCall
    /\ run = IdleRun
    /\ extraction = IdleExtraction
    /\ agent = NewAgent("content_extractor")
    /\ llm = FreshLLM(0)

\* ------------------------------------------------- direct memory operations
\* Tool calls are made one at a time: a direct call happens between runs.
Tick ==
    /\ run.pc = "idle"
    /\ now + TickHours <= MaxTicks * TickHours
    /\ now' = now + TickHours
    /\ UNCHANGED <<svcvars, memvars, last_call, run>>

\* Results a caller hands to add_research_result: synthesizer outputs.
SampleResult(sources) ==
    GlobalSynthesisOutput(FinalReport(DefaultTopic,
        [main_synthesis |-> "llm", thematic_analysis |-> "llm"], "llm", sources))

SampleResults == {SampleResult(<<1>>), SampleResult(<<1, 2>>)}
SingleSourceResults == {SampleResult(<<1>>)}

AddResearchResult(t, r) ==
    /\ run.pc = "idle"
    /\ research_cache' = add_research_result(research_cache, t, r)
    /\ memory_file' = save_memory(conversation_history, research_cache')
    /\ last_call' = NoCall
    /\ UNCHANGED <<svcvars, now, collection, content_hashes, conversation_history, run>>

GetResearchResult(t, max_age_hours) ==
    /\ run.pc = "idle"
    /\ last_call' = [op |-> "get_research_result", topic |-> t,
                     max_age_hours |-> max_age_hours, at |-> now,
                     result |-> get_research_result(t, max_age_hours)]
    /\ UNCHANGED <<svcvars, now, memvars, run>>

AddDocuments(documents, source, check_duplicates) ==
    /\ run.pc = "idle"
    /\ Len(collection) + Len(documents) <= MaxStore
    /\ LET r == add_documents(collection, content_hashes, documents, source, check_duplicates)
       IN /\ collection' = r.collection
          /\ content_hashes' = r.content_hashes
          /\ last_call' = [op |-> "add_documents", documents |-> documents,
                           check_duplicates |-> check_duplicates, stats |-> r.stats]
    /\ UNCHANGED <<svcvars, now, research_cache, conversation_history, memory_file, run>>

ClearOldDocuments(days) ==
    /\ run.pc = "idle"
    /\ LET r == clear_old_documents(collection, content_hashes, days)
       IN /\ collection' = r.collection
          /\ content_hashes' = r.content_hashes
          /\ last_call' = [op |-> "clear_old_documents", days |-> days, deleted |-> r.deleted]
    /\ UNCHANGED <<svcvars, now, research_cache, conversation_history, memory_file, run>>

\* add_documents when collection.add raises: the loop has already put the new
\* hashes in content_hashes, and nothing is inserted.
AddDocumentsInsertFails(documents, source, check_duplicates) ==
    /\ run.pc = "idle"
    /\ Len(collection) + Len(documents) <= MaxStore
    /\ LET r == add_documents_loop(documents, source, check_duplicates, content_hashes,
                                   [added |-> 0, skipped |-> 0, to_add |-> <<>>])
       IN /\ r.acc.to_add # <<>>
          /\ content_hashes' = r.hashes
          /\ last_call' = [op |-> "add_documents_raised", documents |-> documents,
                           check_duplicates |-> check_duplicates]
    /\ UNCHANGED <<svcvars, now, collection, research_cache, conversation_history, memory_file, run>>

\* The callers number their messages: the k-th conversation added to a log
\* carries the message k.
NextMessage ==
    IF conversation_history = <<>> THEN 1
    ELSE conversation_history[Len(conversation_history)].user + 1

AddConversation(user_message) ==
    /\ run.pc = "idle"
    /\ user_message = NextMessage
    /\ LET r == add_conversation(conversation_history, research_cache, user_message)
       IN /\ conversation_history' = r.conversation_history
          /\ research_cache' = r.research_cache
          /\ memory_file' = save_memory(r.conversation_history, r.research_cache)
    /\ last_call' = NoCall
    /\ UNCHANGED <<svcvars, now, collection, content_hashes, run>>

\* The tool get_research_history: the entries it reports.
GetResearchHistory(n_last) ==
    /\ run.pc = "idle"
    /\ last_call' = [op |-> "get_research_history", n_last |-> n_last,
                     entries |-> last_entries(conversation_history, n_last)]
    /\ UNCHANGED <<svcvars, now, memvars, run>>

\* The tool clear_memory.
ClearMemory(confirm) ==
    /\ run.pc = "idle"
    /\ IF ~confirm
       THEN UNCHANGED memvars
       ELSE /\ conversation_history' = clear_all.conversation_history
            /\ research_cache' = clear_all.research_cache
            /\ memory_file' = save_memory(clear_all.conversation_history,
                                          clear_all.research_cache)
            /\ UNCHANGED <<collection, content_hashes>>
    /\ last_call' = [op |-> "clear_memory", confirm |-> confirm]
    /\ UNCHANGED <<svcvars, now, run>>

\* The process stops and starts again: IntegratedMemorySystem() builds both
\* managers anew from the Chroma collection and the memory file.
Restart ==
    /\ run.pc = "idle"
    /\ content_hashes' = load_existing_hashes(collection)
    /\ conversation_history' = load_memory(memory_file).conversation_history
    /\ research_cache' = load_memory(memory_file).research_cache
    /\ last_call' = NoCall
    /\ UNCHANGED <<svcvars, now, collection, memory_file, run>>

\* More than the compression age passes at once.
WeekPasses ==
    /\ run.pc = "idle"
    /\ now <= MaxTicks * TickHours
    /\ now' = now + timedelta_days(CompressDays) + TickHours
    /\ UNCHANGED <<svcvars, memvars, last_call, run>>

\* ----------------------------------------------------------- pipeline tool
Order == <<"Researcher", "Extractor", "Filter", "Summarizer", "Synthesizer", "Persist">>

Fail(r, error, stage) ==
    [r EXCEPT !.pc = "done", !.outcome = Raised(error, stage)]

\* Phase 1 of run_pipeline_with_memory: retrieve_context_for_query, then the
\* cache-hit branch.
StartRun(topic, use_cache) ==
    /\ run.pc = "idle"
    /\ LET cached_result == IF use_cache
                            THEN get_research_result(topic, DefaultMaxAgeHours)
                            ELSE None
           r == [IdleRun EXCEPT !.topic = topic, !.use_cache = use_cache,
                                !.cached_result = cached_result]
       IN run' =
            IF Truthy(cached_result) /\ use_cache /\ HasAttr(cached_result, "final_report")
            THEN IF HasAttr(cached_result.final_report, "formatted_outputs")
                 THEN [r EXCEPT !.pc = "done",
                          !.outcome = Returned(cached_result.final_report.formatted_outputs.markdown)]
                 ELSE Fail(r, "AttributeError", "CacheLookup")
            ELSE [r EXCEPT !.pc = "researcher"]
    /\ last_call' = NoCall
    /\ UNCHANGED <<svcvars, now, memvars>>

\* researcher_agent.process: the search fails on every engine, or finds found
\* results of which the filter and the cut to max_results keep n.
Researcher ==
    /\ run.pc = "researcher"
    /\ LET r == [run EXCEPT !.stages = Append(@, "Researcher")]
       IN \/ run' = Fail(r, "SearchAPIError", "Researcher")
          \/ \E found \in 1..MaxUrls, n \in 0..MaxUrls :
                /\ n <= found
                /\ run' = [r EXCEPT !.pc = "extractor",
                              !.research_data = [results |-> [i \in 1..n |-> i],
                                                 total_found |-> found]]
    /\ UNCHANGED <<svcvars, now, memvars, last_call>>

\* What one fetch yields: a content, or nothing when every attempt failed.
FetchFailed == 0

ExtractionResult(urls, fetched) ==
    LET all == [i \in 1..Len(urls) |-> [url |-> urls[i], content |-> fetched[i]]]
        got(d) == d.content # FetchFailed
        lost(d) == d.content = FetchFailed
        documents == SelectSeq(all, got)
        failed == SelectSeq(all, lost)
    IN [documents |-> documents,
        failed_urls |-> [i \in 1..Len(failed) |-> failed[i].url],
        total_urls |-> Len(urls),
        successful_extractions |-> Len(documents),
        failed_extractions |-> Len(urls) - Len(documents)]

\* content_extractor_agent.process_from_research_output
Extractor ==
    /\ run.pc = "extractor"
    /\ LET r == [run EXCEPT !.stages = Append(@, "Extractor")]
           urls == run.research_data.results
       IN IF urls = <<>>
          THEN run' = Fail(r, "ValidationError", "Extractor")
          ELSE \E fetched \in [1..Len(urls) -> Contents \cup {FetchFailed}] :
                  run' = [r EXCEPT !.pc = "filter",
                             !.extraction_data = ExtractionResult(urls, fetched)]
    /\ UNCHANGED <<svcvars, now, memvars, last_call>>

\* The duplicate check, were it to record the new documents' hashes at once.
FilterDuplicatesRecording ==
    /\ run.pc = "filter"
    /\ LET documents == run.extraction_data.documents
           fresh(doc) == ~is_duplicate(doc.content)
           new_docs == SelectSeq(documents, fresh)
       IN /\ run' = [run EXCEPT !.pc = "summarizer",
                        !.stages = Append(@, "Filter"),
                        !.extraction_data.documents = new_docs]
          /\ content_hashes' = content_hashes \cup
                 {compute_hash(new_docs[i].content) : i \in 1..Len(new_docs)}
    /\ UNCHANGED <<svcvars, now, collection, research_cache, conversation_history, memory_file,
                   last_call>>

\* The duplicate check between extraction and summarization.
FilterDuplicates ==
    /\ run.pc = "filter"
    /\ LET documents == run.extraction_data.documents
           fresh(doc) == ~is_duplicate(doc.content)
           new_docs == SelectSeq(documents, fresh)
           duplicates == Len(documents) - Len(new_docs)
       IN run' = [run EXCEPT !.pc = "summarizer",
                     !.stages = Append(@, "Filter"),
                     !.extraction_data.documents =
                         IF duplicates > 0 THEN new_docs ELSE documents]
    /\ UNCHANGED <<svcvars, now, memvars, last_call>>

\* summarizer_agent.process_from_extraction_result
Summarizer ==
    /\ run.pc = "summarizer"
    /\ LET r == [run EXCEPT !.stages = Append(@, "Summarizer")]
           documents == run.extraction_data.documents
       IN IF ~summarizer_validate_input(documents)
          THEN run' = Fail(r, "ValueError", "Summarizer")
          ELSE \E how \in [1..Len(documents) -> SummaryOutcomes] :
                  LET summaries == [i \in 1..Len(documents) |->
                                       DocumentSummary(documents[i], how[i])]
                  IN run' = [r EXCEPT !.pc = "synthesizer",
                                !.summarization_data =
                                    [summaries |-> summaries,
                                     total_documents |-> Len(summaries),
                                     average_credibility |-> average_credibility(summaries)]]
    /\ UNCHANGED <<svcvars, now, memvars, last_call>>

\* _get_llm_response of the synthesizer: the answer, or the failure as text.
synth_llm_response(llm_ok) == IF llm_ok THEN "llm" ELSE "Erreur"

\* GlobalSynthesizerAgent.validate_input
synthesizer_validate_input(summarization_output) ==
    /\ summarization_output.summaries # <<>>
    /\ Len(summarization_output.summaries) >= min_sources_for_analysis

\* global_synthesizer_agent.process_from_summarization_output. Three LLM calls:
\* main synthesis, thematic analysis, executive summary; each answers or fails
\* after its retries.
Synthesizer ==
    /\ run.pc = "synthesizer"
    /\ LET r == [run EXCEPT !.stages = Append(@, "Synthesizer")]
           summarization_output == run.summarization_data
           topic_val == IF HasAttr(summarization_output, "topic")
                        THEN summarization_output.topic
                        ELSE DefaultTopic
       IN IF ~synthesizer_validate_input(summarization_output)
          THEN run' = Fail(r, "ValueError", "Synthesizer")
          ELSE \E main_ok \in BOOLEAN, thematic_ok \in BOOLEAN, executive_ok \in BOOLEAN :
                  LET main == synth_llm_response(main_ok)
                      thematic == synth_llm_response(thematic_ok)
                      sections == [main_synthesis |-> main, thematic_analysis |-> thematic]
                      sources == [i \in 1..Len(summarization_output.summaries) |->
                                     summarization_output.summaries[i].url]
                  IN IF ~executive_ok /\ summarization_output.average_credibility = "null"
                     THEN run' = Fail(r, "TypeError", "Synthesizer")
                     ELSE run' = [r EXCEPT !.pc = "persist",
                                     !.global_synthesis = GlobalSynthesisOutput(
                                         FinalReport(topic_val, sections,
                                             IF executive_ok THEN "llm" ELSE "fallback",
                                             sources))]
    /\ UNCHANGED <<svcvars, now, memvars, last_call>>

\* Phase 3: process_research_result, add_conversation, return of the markdown.
\* Step 3 of process_research_result reads final_report.formatted_outputs.
Persist ==
    /\ run.pc = "persist"
    /\ LET r == [run EXCEPT !.stages = Append(@, "Persist")]
           s1 == add_documents(collection, content_hashes,
                               ContentsOf(run.extraction_data.documents), "research", TRUE)
           s2 == add_documents(s1.collection, s1.content_hashes,
                               SummaryTextsOf(run.summarization_data.summaries), "summary", TRUE)
           final_report == run.global_synthesis.final_report
       IN IF HasAttr(final_report, "formatted_outputs")
          THEN LET s3 == add_documents(s2.collection, s2.content_hashes,
                                       <<SynthesisText>>, "synthesis", TRUE)
                   cache == add_research_result(research_cache, run.topic, run.global_synthesis)
                   conv == add_conversation(conversation_history, cache, run.topic)
               IN /\ collection' = s3.collection
                  /\ content_hashes' = s3.content_hashes
                  /\ research_cache' = conv.research_cache
                  /\ conversation_history' = conv.conversation_history
                  /\ memory_file' = save_memory(conv.conversation_history, conv.research_cache)
                  /\ run' = [r EXCEPT !.pc = "done",
                                !.outcome = Returned(final_report.formatted_outputs.markdown)]
          ELSE /\ collection' = s2.collection
               /\ content_hashes' = s2.content_hashes
               /\ UNCHANGED <<research_cache, conversation_history, memory_file>>
               /\ run' = Fail(r, "AttributeError", "Persist")
    /\ UNCHANGED <<svcvars, now, last_call>>

\* The call is over: its result or exception has reached the caller.
Return ==
    /\ run.pc = "done"
    /\ run' = IdleRun
    /\ UNCHANGED <<svcvars, now, memvars, last_call>>

\* ----------------------------------------------------------- search manager
\* SearchAPIManager.__init__ registers "tavily", then "serper", each when its
\* key is configured, and raises when neither is.
Registrations == {<<"tavily">>, <<"serper">>, <<"tavily", "serper">>}

Registered(apis) == {apis[i] : i \in 1..Len(apis)}

\* What one call of a provider's search does: it raises, or it returns a list
\* of count results.
Outcomes ==
    {[raises |-> TRUE, count |-> 0]}
        \cup {[raises |-> FALSE, count |-> n] : n \in 0..MaxResults}

\* The results a provider returns, each tagged with the provider it came from.
provider_results(api_name, count) ==
    [i \in 1..count |-> [provider |-> api_name, position |-> i]]

\* An order that ignores the preferred provider.
api_order_registration(apis, preferred_api) == apis

\* api_order = [preferred_api] + [api for api in self.apis.keys() if api != preferred_api]
api_order(apis, preferred_api) ==
    <<preferred_api>> \o SelectSeq(apis, LAMBDA api : api # preferred_api)

\* A test that takes every returned list, an empty one included.
returned(outcome) == ~outcome.raises

\* "if results:" on what the provider returned.
has_results(outcome) == ~outcome.raises /\ outcome.count > 0

\* The loop of SearchAPIManager.search over api_order; calls is the log of the
\* providers called so far.
RECURSIVE search_loop(_, _, _, _)
search_loop(order, apis, outcome, calls) ==
    IF order = <<>>
    THEN [raised |-> TRUE, results |-> <<>>, calls |-> calls]
    ELSE LET api_name == Head(order)
         IN IF api_name \notin Registered(apis)
            THEN search_loop(Tail(order), apis, outcome, calls)
            ELSE IF has_results(outcome[api_name])
                 THEN [raised |-> FALSE,
                       results |-> provider_results(api_name, outcome[api_name].count),
                       calls |-> Append(calls, api_name)]
                 ELSE search_loop(Tail(order), apis, outcome, Append(calls, api_name))

\* SearchAPIManager.search
search(apis, preferred_api, outcome) ==
    search_loop(api_order(apis, preferred_api), apis, outcome, <<>>)

SearchManagerSearch(apis, preferred_api, outcome) ==
    /\ run.pc = "idle"
    /\ LET r == search(apis, preferred_api, outcome)
       IN last_call' = [op |-> "search", apis |-> apis,
                        preferred_api |-> preferred_api, outcome |-> outcome,
                        calls |-> r.calls, raised |-> r.raised,
                        results |-> r.results]
    /\ UNCHANGED <<svcvars, now, memvars, run>>

\* default_search_params["preferred_api"]
DefaultPreferredApi == "tavily"

\* ResearcherAgent.process: the search, then the filter and the cut to
\* max_results, which keep the first kept results of the ranking; a
\* SearchAPIError is raised again.
ResearcherProcess(apis, outcome, kept) ==
    /\ run.pc = "idle"
    /\ LET r == search(apis, DefaultPreferredApi, outcome)
       IN /\ kept <= Len(r.results)
          /\ last_call' =
                 IF r.raised
                 THEN [op |-> "researcher_process", apis |-> apis,
                       outcome |-> outcome, calls |-> r.calls, raised |-> TRUE]
                 ELSE [op |-> "researcher_process", apis |-> apis,
                       outcome |-> outcome, calls |-> r.calls, raised |-> FALSE,
                       found |-> r.results,
                       output |-> [kind |-> "ResearchOutput",
                                   results |-> SubSeq(r.results, 1, kept),
                                   total_found |-> Len(r.results),
                                   search_engine |-> DefaultPreferredApi]]
    /\ UNCHANGED <<svcvars, now, memvars, run>>

\* ---------------------------------------------------------- specifications
Batches == UNION {[1..n -> Contents] : n \in 1..MaxBatch}
RetentionDays == {0, 1, 30}
MaxAges == {0, DefaultMaxAgeHours, Unbounded}

\* The pipeline tool, with the cache also written by direct calls.
Next ==
    \/ \E t \in Topics, use_cache \in BOOLEAN : StartRun(t, use_cache)
    \/ Researcher
    \/ Extractor
    \/ FilterDuplicates
    \/ Summarizer
    \/ Synthesizer
    \/ Persist
    \/ Return
    \/ \E t \in Topics, r \in SingleSourceResults : AddResearchResult(t, r)
    \/ Tick

Spec == Init /\ [][Next]_vars

\* The vector store under direct calls.
NextVector ==
    \/ \E d \in Batches, c \in BOOLEAN : AddDocuments(d, DefaultSource, c)
    \/ \E d \in Batches, c \in BOOLEAN : AddDocumentsInsertFails(d, DefaultSource, c)
    \/ \E days \in RetentionDays : ClearOldDocuments(days)
    \/ Restart
    \/ Tick

SpecVector == Init /\ [][NextVector]_vars

\* The research cache under direct calls.
NextCache ==
    \/ \E t \in Topics, r \in SampleResults : AddResearchResult(t, r)
    \/ \E t \in Topics, a \in MaxAges : GetResearchResult(t, a)
    \/ Tick

SpecCache == Init /\ [][NextCache]_vars

\* A log as k numbered add_conversation calls at time 0 leave it.
NumberedLog(k) == [i \in 1..k |-> [timestamp |-> 0, user |-> i]]

\* The memory after k conversations and nothing else.
InitAfter(k) ==
    /\ now = 0
    /\ collection = <<>>
    /\ content_hashes = {}
    /\ research_cache = [t \in Topics |-> None]
    /\ conversation_history = NumberedLog(k)
    /\ memory_file = IF k = 0 THEN None
                     ELSE save_memory(NumberedLog(k), [t \in Topics |-> None])
    /\ last_call = NoCall
    /\ run = IdleRun
    /\ extraction = IdleExtraction
    /\ agent = NewAgent("content_extractor")
    /\ llm = FreshLLM(0)

\* The conversation log: empty at first or one short of max_history, then
\* conversations, history queries and restarts.
InitLog == \E k \in {0, max_history - 1} : InitAfter(k)

NextLog ==
    \/ \E m \in (1..MaxOverflow) \cup (max_history..(max_history + MaxOverflow)) :
          AddConversation(m)
    \/ \E n_last \in 0..MaxNLast : GetResearchHistory(n_last)
    \/ Restart
    \/ Tick

SpecLog == InitLog /\ [][NextLog]_vars

\* The whole memory under direct calls, the log empty at first or one short of
\* the compression threshold.
InitMemory == \E k \in {0, compression_threshold - 1} : InitAfter(k)

NextMemory ==
    \/ \E t \in Topics, r \in SingleSourceResults : AddResearchResult(t, r)
    \/ \E m \in (1..1) \cup (compression_threshold..(compression_threshold + 1)) :
          AddConversation(m)
    \/ \E c \in Contents : AddDocuments(<<c>>, DefaultSource, TRUE)
    \/ \E days \in RetentionDays : ClearOldDocuments(days)
    \/ \E confirm \in BOOLEAN : ClearMemory(confirm)
    \/ Restart
    \/ Tick
    \/ WeekPasses

SpecMemory == InitMemory /\ [][NextMemory]_vars

\* The search manager under every registration, preference and provider
\* outcome, called directly and through the researcher agent.
NextSearch ==
    \/ \E apis \in Registrations, preferred_api \in {"tavily", "serper"},
          outcome \in [{"tavily", "serper"} -> Outcomes] :
          /\ \A api \in {"tavily", "serper"} \ Registered(apis) :
                 outcome[api] = [raises |-> TRUE, count |-> 0]
          /\ SearchManagerSearch(apis, preferred_api, outcome)
    \/ \E apis \in Registrations, outcome \in [{"tavily", "serper"} -> Outcomes],
          kept \in 0..MaxResults :
          /\ \A api \in {"tavily", "serper"} \ Registered(apis) :
                 outcome[api] = [raises |-> TRUE, count |-> 0]
          /\ ResearcherProcess(apis, outcome, kept)

SpecSearch == Init /\ [][NextSearch]_vars

\* The extractor agent on every list of 1..MaxInputUrls URLs (ExtractionInput
\* takes no empty list) and every outcome of the fetches.
UrlLists == UNION {[1..n -> SampleUrls] : n \in 1..MaxInputUrls}

OutcomesFor(urls) ==
    {outcome \in [1..MaxInputUrls -> FetchOutcomes] :
        \A i \in 1..MaxInputUrls :
            i > Len(filter_valid_urls(urls)) => outcome[i] = "failed"}

NextExtractor ==
    \/ \E urls \in UrlLists : \E outcome \in OutcomesFor(urls) :
          ExtractorProcess(urls, outcome)
    \/ \E urls \in UrlLists : \E outcome \in OutcomesFor(urls) :
          ExtractorExecute(urls, outcome)

SpecExtractor == Init /\ [][NextExtractor]_vars

\* The summarizer agent on every list of 1..MaxDocs documents, some of them
\* empty, every outcome of each summary and every order of completion.
DocumentLists ==
    UNION {[1..n -> [url : {n}, content : Contents \cup {EmptyContent}]] :
              n \in 1..MaxDocs}

Numbered(documents) == [i \in 1..Len(documents) |-> [documents[i] EXCEPT !.url = i]]

HowFor(documents) ==
    {how \in [1..MaxDocs -> SummaryOutcomes] :
        \A i \in 1..MaxDocs :
            i > Len(valid_documents(documents)) => how[i] = "ok"}

NextSummarizer ==
    \/ \E d \in DocumentLists : \E how \in HowFor(d) :
          \E order \in Permutations(1..Len(valid_documents(d))) :
             SummarizerProcess(Numbered(d), how, order)
    \/ \E d \in DocumentLists : \E how \in HowFor(d) :
          \E order \in Permutations(1..Len(valid_documents(d))) :
             SummarizerExecute(Numbered(d), how, order)

SpecSummarizer == Init /\ [][NextSummarizer]_vars

\* One LLM service that has sent nothing yet, or one request short of its
\* rate limit in its first second, and up to MaxLLMCalls completion calls.
PriorRequests == {0, rate_limit_requests - 1}

InitLLM ==
    /\ now = 0
    /\ collection = <<>>
    /\ content_hashes = {}
    /\ research_cache = [t \in Topics |-> None]
    /\ conversation_history = <<>>
    /\ memory_file = None
    /\ last_call = NoCall
    /\ run = IdleRun
    /\ extraction = IdleExtraction
    /\ agent = NewAgent("content_extractor")
    /\ \E k \in PriorRequests : llm = FreshLLM(k)

NextLLM ==
    \/ GenerateCompletion
    \/ \E call \in BagToSet(llm.calls) : WakeUp(call)
    \/ \E call \in BagToSet(llm.calls) : Post(call)
    \/ \E call \in BagToSet(llm.calls) :
          \E response \in Responses, retry_after \in RetryAfter :
             Respond(call, response, retry_after)
    \/ Elapse

SpecLLM == InitLLM /\ [][NextLLM]_vars

\* Batches of 1..MaxPrompts prompts, every outcome of each completion and
\* every order of completion.
PromptLists == UNION {[1..n -> PromptTexts] : n \in 1..MaxPrompts}

NextBatch ==
    \E prompts \in PromptLists :
        \E outcome \in [1..Len(prompts) -> CompletionOutcomes],
           order \in Permutations(1..Len(prompts)) :
            GenerateBatchCompletions(prompts, outcome, order)

SpecBatch == Init /\ [][NextBatch]_vars

\* The chunker on every text of 1..MaxSentences sentences, under every
\* strategy, with and without preserve_structure.
Texts == UNION {[1..n -> Sentences] : n \in 1..MaxSentences}

NextChunker ==
    \E text \in Texts, strategy \in DOMAIN Strategies,
       preserve_structure \in BOOLEAN :
        ChunkDocument(text, strategy, preserve_structure)

SpecChunker == Init /\ [][NextChunker]_vars

\* One agent, the researcher or the content extractor, and up to
\* MaxExecutions execute calls on it, one at a time.
InitAgent ==
    /\ now = 0
    /\ collection = <<>>
    /\ content_hashes = {}
    /\ research_cache = [t \in Topics |-> None]
    /\ conversation_history = <<>>
    /\ memory_file = None
    /\ last_call = NoCall
    /\ run = IdleRun
    /\ extraction = IdleExtraction
    /\ llm = FreshLLM(0)
    /\ \E kind \in DOMAIN AgentMaxRetries : agent = NewAgent(kind)

NextAgent ==
    \/ \E valid \in BOOLEAN : AgentExecute(valid)
    \/ ProcessReturns
    \/ ProcessTimesOut
    \/ ProcessRaises
    \/ AgentSleepEnds

SpecAgent == InitAgent /\ [][NextAgent]_vars

\* The extraction manager: up to MaxExtractCalls calls of extract_multiple at
\* once, NumTasks URLs in all, every interleaving of their coroutines.
NextExtraction ==
    \/ \E n \in 1..NumTasks : ExtractMultiple(n)
    \/ \E task \in BagToSet(extraction.tasks) : Acquire(task)
    \/ \E task \in BagToSet(extraction.tasks) : FetchReturns(task)
    \/ \E task \in BagToSet(extraction.tasks) : FetchRaises(task)
    \/ \E task \in BagToSet(extraction.tasks) : SleepEnds(task)
    \/ \E call \in 1..MaxExtractCalls : ExtractMultipleReturns(call)

SpecExtraction == Init /\ [][NextExtraction]_vars

\* ------------------------------------------------------------------ claims
IsPrefix(s, t) == Len(s) <= Len(t) /\ \A i \in 1..Len(s) : s[i] = t[i]

Last(s) == s[Len(s)]

\* C1: on a cache hit with use_cache the call is over at once: it returns the
\* cached report's markdown and no stage has run.
C1_CacheHitReturnsCachedMarkdown ==
    (run.pc # "idle" /\ run.use_cache /\ Truthy(run.cached_result)) =>
        /\ run.pc = "done"
        /\ run.stages = <<>>
        /\ run.outcome.kind = "return"
        /\ run.outcome.value = run.cached_result.formatted_outputs.markdown

\* C2: the stages of a run happen in the order Researcher, Extractor, duplicate
\* filtering, Summarizer, Synthesizer, Persist, and no step of a run changes the
\* vector store, the cache or the conversation log unless it is the Persist
\* step taken after the Synthesizer returned a report.
C2_FixedOrderNoWriteBeforeSynthesis ==
    [][/\ IsPrefix(run'.stages, Order)
       /\ (run.pc # "idle" /\ memvars' # memvars) =>
              (run.pc = "persist" /\ Truthy(run.global_synthesis)
                 /\ run.stages = SubSeq(Order, 1, 5))]_vars

\* C2 witness: a run went through all six steps and its Persist step wrote.
C2_Witness ==
    /\ run.pc = "done"
    /\ run.stages = Order
    /\ collection # <<>>

\* C3: when a stage of a run fails, the conversation log's last entry records
\* the error of this run and the caller receives an error string, not an
\* exception.
C3_FailureLoggedAndReturned ==
    (run.pc = "done" /\ run.stages # <<>> /\ run.stages # Order) =>
        /\ run.outcome.kind = "return"
        /\ conversation_history # <<>>
        /\ Last(conversation_history).user = run.topic
        /\ Last(conversation_history).timestamp = now

\* C4: the Synthesizer never produces a report built from the text of an LLM
\* failure: a run that holds a report had every section written by the LLM.
C4_NoReportFromLLMFailure ==
    Truthy(run.global_synthesis) =>
        /\ run.global_synthesis.final_report.main_sections.main_synthesis # "Erreur"
        /\ run.global_synthesis.final_report.main_sections.thematic_analysis # "Erreur"

\* C5: when every URL fetch fails the Extractor raises instead of returning: no
\* run holds an extraction result in which every fetch failed.
C5_AllFetchesFailedRaises ==
    Truthy(run.extraction_data) =>
        run.extraction_data.failed_extractions < run.extraction_data.total_urls

\* C6: the documents handed to the Summarizer have pairwise distinct contents,
\* none of them stored: as many documents as distinct contents not stored.
C6_DistinctNewContentsReachSummarizer ==
    run.pc = "summarizer" =>
        LET documents == run.extraction_data.documents
        IN /\ \A i \in 1..Len(documents) : ~is_duplicate(documents[i].content)
           /\ Len(documents) =
                 Cardinality({documents[i].content : i \in 1..Len(documents)})

\* C7: a run whose Synthesizer produced a report ends by returning the report's
\* markdown with the report cached for its topic, so that a second call with
\* use_cache finds it and returns the same markdown.
C7_RunCachesReturnedReport ==
    (run.pc = "done" /\ Truthy(run.global_synthesis)) =>
        /\ run.outcome.kind = "return"
        /\ Truthy(research_cache[run.topic])
        /\ research_cache[run.topic].result = run.global_synthesis
        /\ run.outcome.value = research_cache[run.topic].result.formatted_outputs.markdown

\* C8: once add_documents has stored a content, is_duplicate holds of it, and
\* adding it again with check_duplicates reports added 0 and skipped 1 and
\* leaves the number of stored items unchanged.
C8_DedupLaw ==
    [][\A c \in Contents :
          /\ (\E chk \in BOOLEAN : AddDocuments(<<c>>, DefaultSource, chk)) =>
                 compute_hash(c) \in content_hashes'
          /\ (is_duplicate(c) /\ AddDocuments(<<c>>, DefaultSource, TRUE)) =>
                 /\ last_call'.stats.added = 0
                 /\ last_call'.stats.skipped = 1
                 /\ last_call'.stats.total_in_db = Len(collection)
                 /\ collection' = collection]_vars

\* C8 witness: a stored content was added again with check_duplicates.
C8_Witness ==
    /\ last_call.op = "add_documents"
    /\ last_call.check_duplicates
    /\ Len(last_call.documents) = 1
    /\ is_duplicate(last_call.documents[1])
    /\ last_call.stats.added = 0
    /\ last_call.stats.skipped = 1
    /\ collection # <<>>

\* No two stored items share a content_hash.
UniqueHashes ==
    \A i, j \in 1..Len(collection) :
        collection[i].content_hash = collection[j].content_hash => i = j

\* Every stored item's hash is in the dedup set.
HashesCover ==
    \A i \in 1..Len(collection) : collection[i].content_hash \in content_hashes

\* C9: no two stored items share a content_hash, whatever add_documents and
\* clear_old_documents calls were made.
C9_UniqueHashesAlways == UniqueHashes

\* C9, amended: from a store whose hashes are unique and all in the dedup set,
\* add_documents with check_duplicates (also with one content twice in the
\* batch) and clear_old_documents lead to such a store again; only
\* add_documents without check_duplicates can store a content twice.
C9_UniqueHashesWhenChecked ==
    [][(/\ UniqueHashes
        /\ HashesCover
        /\ ~(\E d \in Batches : AddDocuments(d, DefaultSource, FALSE)))
          => (UniqueHashes' /\ HashesCover')]_vars

\* C9 witness: a batch holding one content twice was added with
\* check_duplicates, and the stored hashes are unique.
C9_Witness ==
    /\ last_call.op = "add_documents"
    /\ last_call.check_duplicates
    /\ Len(last_call.documents) = 2
    /\ last_call.documents[1] = last_call.documents[2]
    /\ last_call.stats.added = 1
    /\ last_call.stats.skipped = 1
    /\ UniqueHashes

\* C10: get_research_result with max_age_hours = 0 returns None.
C10_ZeroMaxAgeReturnsNone ==
    (last_call.op = "get_research_result" /\ last_call.max_age_hours = 0) =>
        last_call.result = None

\* C10, amended: for a cached topic, get_research_result with an unbounded
\* max age returns the cached result; with max_age_hours = 0 it returns None
\* when time has passed since the entry was written, and the cached result
\* when none has.
C10_CacheLaw ==
    (last_call.op = "get_research_result" /\ Truthy(research_cache[last_call.topic])) =>
        LET entry == research_cache[last_call.topic]
        IN /\ last_call.max_age_hours = Unbounded => last_call.result = entry.result
           /\ last_call.max_age_hours = 0 =>
                 last_call.result = IF last_call.at > entry.timestamp
                                    THEN None ELSE entry.result

\* C10 witness: a get with max_age_hours = 0 at the very time the entry was
\* written returned the entry's result.
C10_Witness ==
    /\ last_call.op = "get_research_result"
    /\ last_call.max_age_hours = 0
    /\ Truthy(research_cache[last_call.topic])
    /\ last_call.at = research_cache[last_call.topic].timestamp
    /\ last_call.result = research_cache[last_call.topic].result

\* C11: get_research_result never returns a result older than max_age_hours: an
\* entry whose age exceeds max_age_hours is answered with None, as an uncached
\* topic is, and an entry whose age is within max_age_hours is returned.
C11_StaleIsMissing ==
    last_call.op = "get_research_result" =>
        LET entry == research_cache[last_call.topic]
        IN IF ~Truthy(entry) THEN last_call.result = None
           ELSE IF last_call.at - entry.timestamp > last_call.max_age_hours
                THEN last_call.result = None
                ELSE last_call.result = entry.result

\* C11 witness: a cached entry older than max_age_hours was asked for and None
\* was the answer.
C11_Witness ==
    /\ last_call.op = "get_research_result"
    /\ Truthy(research_cache[last_call.topic])
    /\ last_call.at - research_cache[last_call.topic].timestamp > last_call.max_age_hours
    /\ last_call.max_age_hours = DefaultMaxAgeHours
    /\ last_call.result = None

\* The states of a cache entry, for the default TTL.
Absent(cache, t) == cache[t] = None
Stale(cache, t, time) ==
    cache[t] # None /\ time - cache[t].timestamp > timedelta_hours(DefaultMaxAgeHours)
Fresh(cache, t, time) == cache[t] # None /\ ~Stale(cache, t, time)

\* add_conversation has run _compress_memory in this step.
CompressRan ==
    /\ \E m \in 1..(max_history + MaxOverflow) : AddConversation(m)
    /\ Len(conversation_history') >= compression_threshold

\* C12: apart from a confirmed clear_memory, a cache entry moves only from
\* absent to fresh, from fresh to stale and from stale to absent, and no stale
\* entry is left in the cache once clear_old_documents or the compression has
\* run.
C12_EntryLifecycle ==
    [][ClearMemory(TRUE) \/ \A t \in Topics :
          /\ Absent(research_cache, t) =>
                 Absent(research_cache', t) \/ Fresh(research_cache', t, now')
          /\ Fresh(research_cache, t, now) =>
                 Fresh(research_cache', t, now') \/ Stale(research_cache', t, now')
          /\ Stale(research_cache, t, now) =>
                 Stale(research_cache', t, now') \/ Absent(research_cache', t)
          /\ ((\E days \in RetentionDays : ClearOldDocuments(days)) \/ CompressRan) =>
                 ~Stale(research_cache', t, now')]_vars

\* C12, amended: an entry is fresh after every insert, whatever it was before;
\* only the passing of time makes a fresh entry stale; clear_old_documents
\* leaves the cache as it is; the compression removes exactly the entries older
\* than 7 days, so that a stale entry younger than that stays; and an entry
\* leaves the cache only through the compression or clear_memory(confirm).
C12_EntryLifecycleInCode ==
    [][\A t \in Topics :
          /\ (\E r \in SampleResults : AddResearchResult(t, r)) =>
                 Fresh(research_cache', t, now')
          /\ (Fresh(research_cache, t, now) /\ Stale(research_cache', t, now')) =>
                 now' > now
          /\ (\E days \in RetentionDays : ClearOldDocuments(days)) =>
                 research_cache' = research_cache
          /\ CompressRan =>
                 research_cache'[t] =
                     IF research_cache[t] # None
                        /\ research_cache[t].timestamp < now - timedelta_days(CompressDays)
                     THEN None ELSE research_cache[t]
          /\ (~Absent(research_cache, t) /\ Absent(research_cache', t)) =>
                 \/ ClearMemory(TRUE)
                 \/ CompressRan]_vars

\* C12 witness: the compression has just run and a stale entry is still in the
\* cache.
C12_Witness ==
    /\ Len(conversation_history) >= compression_threshold
    /\ conversation_history[Len(conversation_history)].timestamp = now
    /\ \E t \in Topics : Stale(research_cache, t, now)

\* ---------------------------------------------------------------------- C13
StoredHashes == {collection[i].content_hash : i \in 1..Len(collection)}

\* C13: in every reachable state, a failed vector insertion included, a content
\* hash is in the deduplication set exactly when an item with that hash is in
\* the vector store.
C13_HashIffStored ==
    \A c \in Contents : is_duplicate(c) <=> compute_hash(c) \in StoredHashes

\* ---------------------------------------------------------------------- C14
\* C14: a restart keeps the memory state: the conversation log and the research
\* cache are the same after it, and is_duplicate answers the same for every
\* content.
C14_RestartKeepsMemory ==
    [][Restart =>
          /\ conversation_history' = conversation_history
          /\ research_cache' = research_cache
          /\ \A c \in Contents :
                 (compute_hash(c) \in content_hashes') <=> is_duplicate(c)]_vars

\* ---------------------------------------------------------------------- C15
\* C15: clear_memory without confirmation changes no memory state; with
\* confirmation it empties the conversation log and the research cache and
\* leaves the vector store and its deduplication set as they were.
C15_ClearMemory ==
    [][/\ ClearMemory(FALSE) => UNCHANGED memvars
       /\ ClearMemory(TRUE) =>
              /\ conversation_history' = <<>>
              /\ \A t \in Topics : research_cache'[t] = None
              /\ UNCHANGED <<collection, content_hashes>>]_vars

C15_Witness ==
    /\ last_call = [op |-> "clear_memory", confirm |-> TRUE]
    /\ collection # <<>>
    /\ content_hashes # {}
    /\ conversation_history = <<>>
    /\ \A t \in Topics : research_cache[t] = None
    /\ memory_file = save_memory(<<>>, [t \in Topics |-> None])

\* ---------------------------------------------------------------------- C16
\* C16: the conversation log never holds more than max_history entries; an
\* add_conversation puts the new entry last, keeps the entries before it in
\* their order and, when the log is full, evicts exactly the oldest one; a
\* reload gives the log back as it was.
C16_BoundedLog ==
    [][/\ Len(conversation_history') <= max_history
       /\ \A m \in 1..(max_history + MaxOverflow) :
              AddConversation(m) =>
                  LET old == conversation_history
                      new == conversation_history'
                  IN /\ Last(new).user = m
                     /\ IF Len(old) < max_history
                        THEN /\ Len(new) = Len(old) + 1
                             /\ SubSeq(new, 1, Len(old)) = old
                        ELSE /\ Len(new) = max_history
                             /\ SubSeq(new, 1, max_history - 1) = Tail(old)
       /\ Restart => conversation_history' = conversation_history]_vars

C16_Witness ==
    /\ Len(conversation_history) = max_history
    /\ conversation_history[1].user = MaxOverflow + 1
    /\ conversation_history[max_history].user = max_history + MaxOverflow
    /\ memory_file = save_memory(conversation_history, research_cache)

\* ---------------------------------------------------------------------- C17
\* C17: for every n_last >= 0, get_research_history reports exactly the last
\* min(n_last, length of the log) entries, and so never more than n_last.
C17_LastEntries ==
    last_call.op = "get_research_history" =>
        LET len == Len(conversation_history)
            k == IF last_call.n_last < len THEN last_call.n_last ELSE len
        IN /\ last_call.entries = SubSeq(conversation_history, len - k + 1, len)
           /\ Len(last_call.entries) <= last_call.n_last

\* ---------------------------------------------------------------------- C18
\* The order the claim gives: the preferred provider when it is registered,
\* then the other registered providers in registration order.
PreferredThenRegistration(apis, preferred_api) ==
    IF preferred_api \in Registered(apis)
    THEN <<preferred_api>> \o SelectSeq(apis, LAMBDA api : api # preferred_api)
    ELSE apis

SearchCalled == last_call.op \in {"search", "researcher_process"}

\* C19: a search raises SearchAPIError exactly when every registered provider
\* raised; it does not raise when some provider call completed without an
\* error.
C19_RaisesIffAllRaise ==
    SearchCalled =>
        (last_call.raised <=>
            \A api \in Registered(last_call.apis) : last_call.outcome[api].raises)

\* C19: a search raises SearchAPIError exactly when every registered provider
\* raised or returned no result; the search through the researcher agent
\* raises in the same cases.
C19_RaisesIffNoneHasResults ==
    SearchCalled =>
        (last_call.raised <=>
            \A api \in Registered(last_call.apis) :
                last_call.outcome[api].raises \/ last_call.outcome[api].count = 0)

C19_Witness ==
    /\ last_call.op = "search"
    /\ last_call.apis = <<"tavily", "serper">>
    /\ last_call.outcome["tavily"] = [raises |-> FALSE, count |-> 0]
    /\ last_call.outcome["serper"].raises
    /\ last_call.calls = <<"tavily", "serper">>
    /\ last_call.raised

\* ---------------------------------------------------------------------- C20
\* C20: the search_engine of a ResearchOutput is the provider whose results
\* the search returned: the secondary provider's name when the preferred one
\* raised and the secondary returned results.
C20_SearchEngineIsProducer ==
    (last_call.op = "researcher_process" /\ ~last_call.raised) =>
        /\ last_call.output.search_engine = Last(last_call.calls)
        /\ \A i \in 1..Len(last_call.found) :
               last_call.found[i].provider = last_call.output.search_engine

\* ---------------------------------------------------------------------- C21
ExtractorReturned ==
    last_call.op \in {"extractor_process", "extractor_execute"} /\ ~last_call.raised

Rejected(urls) == {i \in 1..Len(urls) : ~valid_url(urls[i])}

NeverFetchedNorListed ==
    \A i \in Rejected(last_call.urls) :
        /\ \A j \in 1..Len(last_call.fetched) : last_call.fetched[j] # last_call.urls[i]
        /\ \A j \in 1..Len(last_call.result.failed_urls) :
               last_call.result.failed_urls[j] # last_call.urls[i]

\* C22: a URL that validation rejects is not fetched, is not in failed_urls
\* and is not counted in failed_extractions, which counts only the valid URLs
\* that gave no document.
C22_RejectedNotCounted ==
    ExtractorReturned =>
        /\ NeverFetchedNorListed
        /\ last_call.result.failed_extractions =
               Len(last_call.fetched) - Len(last_call.result.documents)

\* C22: a URL that validation rejects is not fetched and is not in
\* failed_urls; it is counted in total_urls and in failed_extractions, which
\* is the number of valid URLs that gave no document plus the number of
\* rejected URLs.
C22_RejectedCountedNotListed ==
    ExtractorReturned =>
        /\ NeverFetchedNorListed
        /\ last_call.result.total_urls = Len(last_call.urls)
        /\ last_call.result.failed_extractions =
               (Len(last_call.fetched) - Len(last_call.result.documents))
                   + Cardinality(Rejected(last_call.urls))

C22_Witness ==
    /\ last_call.op = "extractor_execute"
    /\ ~last_call.raised
    /\ Len(last_call.urls) = 2
    /\ Rejected(last_call.urls) = {2}
    /\ last_call.fetched = <<last_call.urls[1]>>
    /\ Len(last_call.result.documents) = 1
    /\ last_call.result.failed_urls = <<>>
    /\ last_call.result.failed_extractions = 1

\* ---------------------------------------------------------------------- C23
\* C23: the extractor stage raises exactly when no valid URL remains after
\* validation, through execute and through process alike; when it returns,
\* every valid URL whose fetch gave no document is in failed_urls.
C23_FailsIffNoValidUrl ==
    last_call.op \in {"extractor_process", "extractor_execute"} =>
        /\ last_call.raised <=> Rejected(last_call.urls) = 1..Len(last_call.urls)
        /\ ~last_call.raised =>
               \A i \in 1..Len(last_call.fetched) :
                   (\A k \in 1..Len(last_call.result.documents) :
                        last_call.result.documents[k].fetched_as # i)
                   => \E j \in 1..Len(last_call.result.failed_urls) :
                          last_call.result.failed_urls[j] = last_call.fetched[i]

\* ---------------------------------------------------------------------- C24
IsFetch(entry) == entry.event \in {"fetch_ok", "fetch_failed"}

\* C24: a task fetches its URL at most max_retries + 1 times; every fetch but
\* the first comes right after a sleep of 2^attempt seconds that itself comes
\* right after a failed fetch; a successful fetch is the last thing the task
\* does.
C24_RetryDiscipline ==
    \A task \in BagToSet(extraction.tasks) :
        LET log == task.log
            fetches == Cardinality({k \in 1..Len(log) : IsFetch(log[k])})
                           + (IF task.pc = "fetching" THEN 1 ELSE 0)
        IN /\ fetches <= extraction_max_retries + 1
           /\ \A k \in 1..Len(log) :
                  /\ log[k].event = "fetch_ok" => k = Len(log) /\ task.pc = "returned"
                  /\ IsFetch(log[k]) =>
                         IF k = 1 THEN log[k].attempt = 0
                         ELSE log[k - 1] = Event("sleep", log[k].attempt, 2 ^ log[k].attempt)
                  /\ log[k].event = "sleep" =>
                         /\ k > 1
                         /\ log[k - 1] = Event("fetch_failed", log[k].attempt - 1, 0)
                         /\ log[k].seconds = 2 ^ log[k].attempt
           /\ (task.pc = "fetching" /\ log # <<>>) => Last(log).event = "sleep"

C24_Witness ==
    \E task \in BagToSet(extraction.tasks) :
        /\ task.pc = "raised"
        /\ task.log = <<Event("fetch_failed", 0, 0), Event("sleep", 1, 2),
                        Event("fetch_failed", 1, 0), Event("sleep", 2, 4),
                        Event("fetch_failed", 2, 0)>>

\* ---------------------------------------------------------------------- C25
\* The tasks between their first attempt and the end of their last one.
InProgressCount ==
    BagCardinality([t \in {m \in BagToSet(extraction.tasks) : InProgress(m)} |->
                       CopiesIn(t, extraction.tasks)])

\* C25: on one extraction manager at most max_concurrent_extractions URLs are
\* in progress at any time, sleeps between attempts included, whatever the
\* number of URLs and of extract_multiple calls running.
C25_BoundedConcurrency ==
    /\ InProgressCount <= max_concurrent_extractions
    /\ extraction.semaphore = max_concurrent_extractions - InProgressCount

C25_Witness ==
    /\ InProgressCount = max_concurrent_extractions
    /\ extraction.calls = 2
    /\ \E t \in BagToSet(extraction.tasks) : t.pc = "waiting"
    /\ \E t \in BagToSet(extraction.tasks) : t.pc = "sleeping" /\ t.call = 1
    /\ \E t \in BagToSet(extraction.tasks) : t.pc = "fetching" /\ t.call = 2

\* ---------------------------------------------------------------------- C26
SummarizerReturned ==
    /\ last_call.op \in {"summarizer_process", "summarizer_execute"}
    /\ ~last_call.raised

\* C26: the summarizer returns exactly one summary per input document, and
\* summaries[i] is the summary of documents[i], whatever the order in which
\* the summaries were completed.
C26_OneSummaryPerDocument ==
    SummarizerReturned =>
        /\ Len(last_call.output.summaries) = Len(last_call.documents)
        /\ \A i \in 1..Len(last_call.documents) :
              i <= Len(last_call.output.summaries) =>
                  last_call.output.summaries[i].url = last_call.documents[i].url

\* ---------------------------------------------------------------------- C27
\* C27: a document whose summarization failed, the LLM calls having failed or
\* an exception having been raised, has an error summary with null sentiment
\* and null credibility score; the other documents are summarized normally
\* and the stage raises only when the validation of its input fails.
C27_FailureGivesErrorSummary ==
    /\ last_call.op = "summarizer_execute" =>
          (last_call.raised <=> ~summarizer_validate_input(last_call.documents))
    /\ SummarizerReturned =>
          LET valid == valid_documents(last_call.documents)
              summaries == last_call.output.summaries
          IN \A i \in 1..Len(valid) :
                IF last_call.how[i] = "ok"
                THEN summaries[i] = DocumentSummary(valid[i], "ok")
                ELSE /\ summaries[i].url = valid[i].url
                     /\ summaries[i].sentiment = "null"
                     /\ summaries[i].credibility_score = "null"

\* ---------------------------------------------------------------------- C28
LLMCalls == BagToSet(llm.calls)

\* C28: a completion call sends at most max_retries + 1 = 4 HTTP requests;
\* it has returned exactly when its latest request got a 200 with content, an
\* empty response is a failed attempt like the others, a failed attempt
\* short of the fourth is followed by a retry, and the call raises an
\* LLMError when the fourth has failed.
C28_BoundedAttempts ==
    \A call \in LLMCalls :
        /\ call.posts <= llm_max_retries + 1
        /\ call.pc = "returned" <=> call.last = "ok"
        /\ call.pc = "raised" <=>
              (call.posts = llm_max_retries + 1
                  /\ call.last \notin {"none", "ok"}
                  /\ call.pc # "in_flight")
        /\ call.pc = "raised" =>
              call.error \in {"LLMError", "LLMRateLimitError"}

C28_Witness ==
    /\ \E call \in LLMCalls :
          call.pc = "returned" /\ call.posts = 2
    /\ \E call \in LLMCalls :
          call.pc = "raised" /\ call.last = "empty"

\* ---------------------------------------------------------------------- C29
\* C29: a call whose final attempt was answered with 429 raises
\* LLMRateLimitError, not a plain LLMError.
C29_RateLimitErrorReachesCaller ==
    \A call \in LLMCalls :
        (call.pc = "raised" /\ call.last = "429") =>
            call.error = "LLMRateLimitError"

\* ---------------------------------------------------------------------- C30
RequestsInWindow(start) ==
    Cardinality({i \in 1..Len(llm.sent) :
                    start <= llm.sent[i] /\ llm.sent[i] < start + RateWindow})

\* C30: no window of 60 seconds holds more than rate_limit_requests requests
\* sent by the service, retries included.
C30_RateLimitKept ==
    \A i \in 1..Len(llm.sent) :
        RequestsInWindow(llm.sent[i]) <= rate_limit_requests

\* ---------------------------------------------------------------------- C31
\* C31: generate_batch_completions returns one entry per prompt, entry i
\* being the completion of prompt i or, when that completion failed, its
\* error string, whatever the order in which the completions finished; a
\* failure neither raises nor changes another entry.
C31_BatchKeepsOrder ==
    last_call.op = "generate_batch_completions" =>
        /\ ~last_call.raised
        /\ Len(last_call.result) = Len(last_call.prompts)
        /\ \A i \in 1..Len(last_call.prompts) :
              last_call.result[i] =
                  IF last_call.outcome[i] = "ok"
                  THEN <<"completion", last_call.prompts[i]>>
                  ELSE <<"ERREUR", last_call.prompts[i]>>

C31_Witness ==
    /\ last_call.op = "generate_batch_completions"
    /\ last_call.prompts = <<"p", "q", "p">>
    /\ last_call.outcome = <<"ok", "raises", "ok">>
    /\ last_call.order = <<3, 1, 2>>
    /\ last_call.result[2] = <<"ERREUR", "q">>

\* ---------------------------------------------------------------------- C32
\* C32: every chunk the chunker returns, except possibly the last, is at
\* least min_chunk and at most max_chunk characters long, and a text longer
\* than max_chunk comes back as more than one chunk.
C32_ChunkSizes ==
    last_call.op = "chunk_document" =>
        LET size == Strategies[last_call.strategy]
            chunks == last_call.chunks
        IN /\ \A i \in 1..(Len(chunks) - 1) :
                 /\ size.min_chunk_size <= chunks[i]
                 /\ chunks[i] <= size.max_chunk_size
           /\ text_len(clean_text(last_call.text)) > size.max_chunk_size =>
                 Len(chunks) > 1

\* ---------------------------------------------------------------------- C33
\* C33: when every attempt of the content extractor's process failed with
\* ContentExtractionError, execute raises ContentExtractionError.
C33_RaisesExtractionError ==
    (/\ agent.kind = "content_extractor"
     /\ agent.pc = "raised"
     /\ agent.errors # <<>>
     /\ \A i \in 1..Len(agent.errors) :
           agent.errors[i] = "ContentExtractionError")
        => agent.raised = "ContentExtractionError"

\* ---------------------------------------------------------------------- C34
\* C34: an execute call on an input that fails validate_input raises
\* ValueError without calling process, leaves the status ERROR and adds
\* exactly one to failed_executions; nothing else is touched.
C34_InvalidInputRaises ==
    [][(agent'.total_executions = agent.total_executions + 1
            /\ ~agent'.input_valid)
          => /\ agent'.pc = "raised"
             /\ agent'.raised = "ValueError"
             /\ agent'.process_calls = 0
             /\ agent'.status = "error"
             /\ agent'.failed_executions = agent.failed_executions + 1
             /\ agent'.successful_executions = agent.successful_executions
             /\ UNCHANGED <<extraction, llm, memvars, last_call, run>>]_vars

C34_Witness ==
    /\ agent.pc = "raised"
    /\ ~agent.input_valid
    /\ agent.raised = "ValueError"
    /\ agent.total_executions = 2
    /\ agent.failed_executions = 1
    /\ agent.successful_executions = 1

\* ---------------------------------------------------------------------- C37
\* C37: execute calls process at most max_retries + 1 times; it returns at
\* the first attempt that succeeds, with status COMPLETED; when every attempt
\* has failed or timed out it raises with status ERROR; the status is
\* WORKING only while execute is running.
C37_ExecuteLifecycle ==
    /\ agent.process_calls <= AgentMaxRetries[agent.kind] + 1
    /\ agent.status = "working" <=> agent.pc \in {"processing", "sleeping"}
    /\ agent.pc = "returned" =>
          /\ agent.status = "completed"
          /\ Len(agent.errors) = agent.process_calls - 1
    /\ agent.pc = "raised" =>
          /\ agent.status = "error"
          /\ agent.input_valid =>
                /\ agent.process_calls = AgentMaxRetries[agent.kind] + 1
                /\ Len(agent.errors) = agent.process_calls
    /\ agent.pc \in {"processing", "sleeping"} =>
          Len(agent.errors) < AgentMaxRetries[agent.kind] + 1

C37_Witness ==
    /\ agent.kind = "researcher"
    /\ agent.total_executions = 2
    /\ agent.successful_executions = 1
    /\ agent.pc = "raised"
    /\ agent.errors = <<"Exception", "TimeoutError", "TimeoutError", "Exception">>

\* ---------------------------------------------------------------------- C35
\* C35: an add_conversation that leaves the log with at least
\* compression_threshold entries removes from the result cache exactly the
\* entries older than 7 days, each with its keywords, and keeps the others
\* and the log; one that leaves the log shorter does not change the cache.
C35_CompressionOnInsert ==
    [][(\E m \in 1..(max_history + MaxOverflow) : AddConversation(m)) =>
          /\ Len(conversation_history) < max_history =>
                SubSeq(conversation_history', 1, Len(conversation_history))
                    = conversation_history
          /\ IF Len(conversation_history') >= compression_threshold
             THEN \A t \in Topics :
                     research_cache'[t] =
                         IF /\ research_cache[t] # None
                            /\ now - research_cache[t].timestamp
                                   > timedelta_days(CompressDays)
                         THEN None ELSE research_cache[t]
             ELSE research_cache' = research_cache]_vars

\* C35 witness: the compression has just run past the seventh day; one topic
\* has no entry and another has kept an entry written within the week.
C35_Witness ==
    /\ Len(conversation_history) >= compression_threshold
    /\ conversation_history[Len(conversation_history)].timestamp = now
    /\ now > timedelta_days(CompressDays)
    /\ \E t, u \in Topics :
          /\ research_cache[t] = None
          /\ memory_file.research_cache[t] = None
          /\ research_cache[u] # None
          /\ now - research_cache[u].timestamp <= timedelta_days(CompressDays)

\* ---------------------------------------------------------------------- C36
\* C36: clear_old_documents(days) removes exactly the items older than days
\* days and returns their number; afterwards is_duplicate is false for the
\* content of a removed item of which no copy remains, and true for the
\* content of every item that remains stored.
C36_ClearOldDocuments ==
    [][\A days \in RetentionDays :
          ClearOldDocuments(days) =>
              LET Old == {i \in 1..Len(collection) : IsOld(collection[i], days)}
                  Remaining == {collection'[i].content_hash :
                                   i \in 1..Len(collection')}
              IN /\ collection' =
                       SelectSeq(collection, LAMBDA item : ~IsOld(item, days))
                 /\ last_call'.deleted = Cardinality(Old)
                 /\ \A i \in Old :
                       collection[i].content_hash \notin Remaining =>
                           collection[i].content_hash \notin content_hashes'
                 /\ Remaining \cap content_hashes = Remaining \cap content_hashes']_vars

\* ---------------------------------------------------------------------- C38
\* C38: the final report a pipeline run produces, which is the report the
\* run caches under its topic, has the topic the run was started with.
C38_ReportAboutTopic ==
    run.global_synthesis # None =>
        run.global_synthesis.final_report.topic = run.topic

\* ---------------------------------------------------------------------- C39
\* Every document the run extracted is already in memory.
AllExtractedStored(documents) ==
    /\ documents # <<>>
    /\ \A i \in 1..Len(documents) : is_duplicate(documents[i].content)

\* C39: when every document a run extracted is already in memory, the
\* duplicate check hands an empty list to the Summarizer, the run fails
\* there with a validation error, and the step writes nothing to the memory:
\* the result cache is as it was.
C39_AllDuplicatesFailRun ==
    [][/\ (run.pc = "filter"
            /\ AllExtractedStored(run.extraction_data.documents)
            /\ run' # run)
          => /\ run'.pc = "summarizer"
             /\ run'.extraction_data.documents = <<>>
             /\ UNCHANGED memvars
       /\ (run.pc = "summarizer"
            /\ run.extraction_data.documents = <<>>
            /\ run' # run)
          => /\ run'.pc = "done"
             /\ run'.outcome = Raised("ValueError", "Summarizer")
             /\ UNCHANGED memvars]_vars

\* C39 witness: a run has ended in the Summarizer's ValueError after a
\* duplicate check that removed every document it had extracted.
C39_Witness ==
    /\ run.pc = "done"
    /\ run.outcome = Raised("ValueError", "Summarizer")
    /\ run.extraction_data.successful_extractions > 0
    /\ run.extraction_data.documents = <<>>
    /\ \E i \in 1..Len(collection) : collection[i].source = "research"

\* ---------------------------------------------------------------------- C40
\* The documents and the summaries of the run are in the vector store and
\* their hashes in the hash set.
RunStored(coll, hashes) ==
    LET contents == ContentsOf(run.extraction_data.documents)
                        \o SummaryTextsOf(run.summarization_data.summaries)
    IN \A i \in 1..Len(contents) :
          /\ compute_hash(contents[i]) \in hashes
          /\ \E j \in 1..Len(coll) : coll[j].content_hash = compute_hash(contents[i])

\* C40: the persist step is all or nothing: it leaves the run's report in the
\* result cache under the run's topic exactly when it has added the run's
\* documents and summaries to the vector store and the hash set, and when it
\* raises it leaves the memory as it found it.
C40_PersistAllOrNothing ==
    [][(run.pc = "persist" /\ run' # run)
          => /\ (/\ research_cache'[run.topic] # None
                 /\ research_cache'[run.topic].result = run.global_synthesis
                 /\ research_cache'[run.topic].timestamp = now)
                    <=> RunStored(collection', content_hashes')
             /\ run'.outcome.kind = "raise" => UNCHANGED memvars]_vars

====
